---- MODULE Spec2Model ----
(***************************************************************************)
(* Research-Assistant: the Paper Store (Neo4jHandler and DBAgent, both     *)
(* writing to the same property graph) and the Search Orchestrator         *)
(* (SearchAgent) that feeds it.                                            *)
(*                                                                         *)
(* A Cypher query is modelled by its row semantics: every clause maps a    *)
(* table of rows to a table of rows, UNWIND of an empty list or of null    *)
(* yields no row, and the clauses after it run once per row, hence not at  *)
(* all when there is no row.  A write transaction is atomic: it commits    *)
(* all of its writes or, when the driver raises, none.                     *)
(***************************************************************************)
EXTENDS Integers, Sequences, FiniteSets, TLC

VARIABLES graph, prev, clock, calls, last, sa, api, qa, ui

vars == <<graph, prev, clock, calls, last, sa, api, qa, ui>>

\* The state of the HTTP handlers (api), of the QA Orchestrator (qa) and of
\* the chat front-end (ui).
web == <<api, qa, ui>>

-----------------------------------------------------------------------------
(* Bounds of the model: the Paper Store calls in one behaviour of          *)
(* SpecStore, of SpecQuery and of SpecRelated, the largest limit argument  *)
(* and the largest number of results the paper index returns to a search.  *)

MaxCalls == 3
MaxQueryCalls == 3
MaxRelatedCalls == 4
MaxLimit == 2
MaxBatch == 2

-----------------------------------------------------------------------------
(* Values.  Python None and Cypher null are the empty option.              *)

None == {}
Some(v) == {v}
Val(o) == CHOOSE v \in o : TRUE

\* Texts are sequences of characters; "q" and "Q" differ (case matters).
T_q == <<"q">>
T_Q == <<"Q">>
T_x == <<"x">>
T_xq == <<"x", "q">>

Range(s) == {s[i] : i \in 1..Len(s)}

\* Cypher: a CONTAINS b on strings (substring, case-sensitive).
IsSubstring(t, s) ==
    \E i \in 1..(Len(s) + 1) :
        /\ i + Len(t) - 1 <= Len(s)
        /\ SubSeq(s, i, i + Len(t) - 1) = t

\* Cypher three-valued logic: a CONTAINS on a missing property is null.
Contains3(o, t) == IF o = None THEN "null"
                   ELSE IF IsSubstring(t, Val(o)) THEN "true" ELSE "false"

Or3(a, b) == IF a = "true" \/ b = "true" THEN "true"
             ELSE IF a = "null" \/ b = "null" THEN "null" ELSE "false"

-----------------------------------------------------------------------------
(* The property graph.  Paper nodes carry a node identity (nid) besides    *)
(* their id property, so that two Paper nodes with one id are two nodes.   *)
(* Author and Keyword nodes are identified by name, Image nodes by         *)
(* (page, index, type): these are the keys they are MERGEd on.             *)

EmptyGraph ==
    [papers |-> {}, authors |-> {}, keywords |-> {}, images |-> {},
     authored |-> {}, has_keyword |-> {}, has_image |-> {}, nodes |-> 0]

PaperNodes(g, id) == {n \in g.papers : n.id = id}

AuthorsOf(g, nid) == {r[1] : r \in {x \in g.authored : x[2] = nid}}
KeywordsOf(g, nid) == {r[2] : r \in {x \in g.has_keyword : x[1] = nid}}
ImagesOf(g, nid) == {r[2] : r \in {x \in g.has_image : x[1] = nid}}

-----------------------------------------------------------------------------
(* MERGE (p:Paper {id: $id}): the rows are the matching nodes, or one new  *)
(* node when none matches.                                                 *)

\* CREATE (p:Paper {id: $id}) instead: always a new node.
CreatePaperRows(g, id) == {g.nodes + 1}

MergePaperRows(g, id) ==
    IF PaperNodes(g, id) = {} THEN {g.nodes + 1}
    ELSE {n.nid : n \in PaperNodes(g, id)}

\* The properties of node nid before the SET (absent on a new node).
OldProp(g, nid, field) ==
    IF \E n \in g.papers : n.nid = nid
    THEN (CHOOSE n \in g.papers : n.nid = nid)[field]
    ELSE None

\* A paper that always comes with a keyword.
NeoKeywordsGiven(paper) == <<"k1">>

\* getattr(paper, 'keywords', []): models.schemas.Paper has no such field.
NeoKeywords(paper) ==
    IF "keywords" \in DOMAIN paper THEN paper.keywords ELSE <<>>

\* UNWIND of null yields no row, as UNWIND of the empty list does.
UnwindList(o) == IF o = None THEN <<>> ELSE Val(o)

ImageKey(image) == [page |-> image.page, index |-> image.index, type |-> image.type]

\* The rows that reach a clause placed after the UNWIND of `list`.
RowsAfterUnwind(rows, list) == rows * Len(list)

\* Neo4jHandler._create_paper_tx: the graph after the query and the number
\* of rows it returns.
NeoCreatePaperTx(g, paper, now) ==
    LET rows == MergePaperRows(g, paper.id)
        keywords == NeoKeywords(paper)
        images == UnwindList(paper.images)
        nP == Cardinality(rows)
        nA == RowsAfterUnwind(nP, paper.authors)
        nK == RowsAfterUnwind(nA, keywords)
        nI == RowsAfterUnwind(nK, images)
        set == {[nid |-> r, id |-> paper.id, title |-> paper.title,
                 abstract |-> Some(paper.abstract),
                 summary |-> OldProp(g, r, "summary"),
                 year |-> paper.year, url |-> paper.url,
                 full_text |-> paper.full_text,
                 updated_at |-> now] : r \in rows}
    IN [graph |->
          [papers |-> {n \in g.papers : n.nid \notin rows} \cup set,
           nodes |-> IF \E r \in rows : r > g.nodes THEN g.nodes + 1 ELSE g.nodes,
           authors |-> IF nP > 0 THEN g.authors \cup Range(paper.authors)
                       ELSE g.authors,
           authored |-> IF nP > 0
                        THEN g.authored \cup (Range(paper.authors) \X rows)
                        ELSE g.authored,
           keywords |-> IF nA > 0 THEN g.keywords \cup Range(keywords)
                        ELSE g.keywords,
           has_keyword |-> IF nA > 0
                           THEN g.has_keyword \cup (rows \X Range(keywords))
                           ELSE g.has_keyword,
           images |-> IF nK > 0
                      THEN g.images \cup {ImageKey(i) : i \in Range(images)}
                      ELSE g.images,
           has_image |-> IF nK > 0
                         THEN g.has_image \cup
                              (rows \X {ImageKey(i) : i \in Range(images)})
                         ELSE g.has_image],
        returned |-> nI]

\* DBAgent._create_paper_tx (keywords=paper.keywords or []).
DBCreatePaperTx(g, paper, now) ==
    LET rows == MergePaperRows(g, paper.id)
        keywords == UnwindList(paper.keywords)
        nP == Cardinality(rows)
        nA == RowsAfterUnwind(nP, paper.authors)
        nK == RowsAfterUnwind(nA, keywords)
        set == {[nid |-> r, id |-> paper.id, title |-> paper.title,
                 abstract |-> OldProp(g, r, "abstract"),
                 summary |-> Some(paper.summary),
                 year |-> paper.year, url |-> paper.url,
                 full_text |-> OldProp(g, r, "full_text"),
                 updated_at |-> now] : r \in rows}
    IN [graph |->
          [papers |-> {n \in g.papers : n.nid \notin rows} \cup set,
           nodes |-> IF \E r \in rows : r > g.nodes THEN g.nodes + 1 ELSE g.nodes,
           authors |-> IF nP > 0 THEN g.authors \cup Range(paper.authors)
                       ELSE g.authors,
           authored |-> IF nP > 0
                        THEN g.authored \cup (Range(paper.authors) \X rows)
                        ELSE g.authored,
           keywords |-> IF nA > 0 THEN g.keywords \cup Range(keywords)
                        ELSE g.keywords,
           has_keyword |-> IF nA > 0
                           THEN g.has_keyword \cup (rows \X Range(keywords))
                           ELSE g.has_keyword,
           images |-> g.images,
           has_image |-> g.has_image],
        returned |-> nK]

-----------------------------------------------------------------------------
(* Paper Store operations.  `fault` is the step at which the driver        *)
(* raises: opening the session, running the query, committing.  `calls`    *)
(* counts the calls the behaviour has left.                                *)

Faults == {"session", "run", "commit"}

\* History: the call being made repeats the one before it, which committed.
SameCall(op, paper) ==
    last.op = op /\ last.fault = "none" /\ last.args = paper

\* Neo4jHandler.store_paper: everything runs inside its try, and
\* _create_paper_tx answers "result.single() is not None".
NeoStorePaper(paper, fault) ==
    /\ calls > 0
    /\ calls' = calls - 1
    /\ clock' = clock + 1
    /\ prev' = graph
    /\ LET tx == NeoCreatePaperTx(graph, paper, clock + 1)
       IN IF fault = "none"
          THEN /\ graph' = tx.graph
               /\ last' = [op |-> "neo_store", args |-> paper, fault |-> fault,
                           ret |-> (tx.returned >= 1), raised |-> FALSE,
                           again |-> SameCall("neo_store", paper)]
          ELSE /\ graph' = graph
               /\ last' = [op |-> "neo_store", args |-> paper, fault |-> fault,
                           ret |-> FALSE, raised |-> FALSE, again |-> FALSE]
    /\ UNCHANGED <<sa, web>>

\* DBAgent.store_paper: session and transaction inside the try.
DBStorePaper(paper, fault) ==
    /\ calls > 0
    /\ calls' = calls - 1
    /\ clock' = clock + 1
    /\ prev' = graph
    /\ LET tx == DBCreatePaperTx(graph, paper, clock + 1)
       IN IF fault = "none"
          THEN /\ graph' = tx.graph
               /\ last' = [op |-> "db_store", args |-> paper, fault |-> fault,
                           ret |-> (tx.returned >= 1), raised |-> FALSE,
                           again |-> SameCall("db_store", paper)]
          ELSE /\ graph' = graph
               /\ last' = [op |-> "db_store", args |-> paper, fault |-> fault,
                           ret |-> FALSE, raised |-> FALSE, again |-> FALSE]
    /\ UNCHANGED <<sa, web>>

\* The driver is the synchronous GraphDatabase.driver: its Session has
\* __enter__/__exit__ only, no __aenter__/__aexit__.
SessionIsAsync == FALSE

\* Neo4jHandler.get_paper_by_id: "async with self.driver.session()" is
\* entered before the try, so what it raises leaves the method.
GetPaperById(paper_id, fault) ==
    /\ calls > 0
    /\ calls' = calls - 1
    /\ prev' = graph
    /\ LET enterRaises == fault = "session" \/ ~SessionIsAsync
           found == PaperNodes(graph, paper_id)
       IN last' = [op |-> "get_paper_by_id", args |-> [paper_id |-> paper_id],
                   fault |-> fault,
                   ret |-> IF enterRaises \/ fault # "none" \/ found = {}
                           THEN None
                           ELSE {[id |-> n.id, title |-> n.title,
                                  images |-> ImagesOf(graph, n.nid)] : n \in found},
                   raised |-> enterRaises, again |-> FALSE]
    /\ UNCHANGED <<graph, clock, sa, web>>

-----------------------------------------------------------------------------
(* DBAgent.query_papers.                                                   *)

Min(a, b) == IF a <= b THEN a ELSE b

\* Every sequence that lists the elements of the finite set S once.
Perms(S) ==
    {f \in [1..Cardinality(S) -> S] :
        \A i, j \in 1..Cardinality(S) : i # j => f[i] # f[j]}

\* The same WHERE with OR between the year test and the topic test.
QueryWhereAny(n, topic, start_year) ==
    \/ n.year >= start_year
    \/ Or3(Contains3(Some(n.title), topic), Contains3(n.summary, topic)) = "true"

\* WHERE p.year >= $start_year
\*   AND (p.title CONTAINS $topic OR p.summary CONTAINS $topic)
QueryWhere(n, topic, start_year) ==
    /\ n.year >= start_year
    /\ Or3(Contains3(Some(n.title), topic), Contains3(n.summary, topic)) = "true"

\* MATCH (a:Author)-[:AUTHORED]->(p)  MATCH (p)-[:HAS_KEYWORD]->(k):
\* a row survives only with at least one author and one keyword.
QueryJoins(g, n) == AuthorsOf(g, n.nid) # {} /\ KeywordsOf(g, n.nid) # {}

\* The grouping key of the aggregating RETURN.
GroupKey(n) ==
    [id |-> n.id, title |-> n.title, summary |-> n.summary,
     year |-> n.year, url |-> n.url]

\* One record per group: collect(DISTINCT a.name), collect(DISTINCT k.name).
GroupRecords(g, nodes) ==
    {[id |-> k.id, title |-> k.title, summary |-> k.summary, year |-> k.year,
      url |-> k.url,
      authors |-> UNION {AuthorsOf(g, n.nid) : n \in {m \in nodes : GroupKey(m) = k}},
      keywords |-> UNION {KeywordsOf(g, n.nid) : n \in {m \in nodes : GroupKey(m) = k}}]
     : k \in {GroupKey(n) : n \in nodes}}

\* The groups without an ORDER BY.
UnorderedByYear(R) == Perms(R)

\* ORDER BY p.year DESC: papers of one year come in any order.
OrderByYearDesc(R) ==
    {s \in Perms(R) : \A i, j \in 1..Len(s) : i < j => s[i].year >= s[j].year}

\* The rows without a LIMIT.
NoLimit(s, limit) == s

\* LIMIT $limit
Limit(s, limit) == SubSeq(s, 1, Min(limit, Len(s)))

\* DBAgent._query_papers_tx: the lists the query may return.
QueryPapersTx(g, topic, start_year, limit) ==
    LET nodes == {n \in g.papers :
                     QueryWhere(n, topic, start_year) /\ QueryJoins(g, n)}
    IN {Limit(s, limit) : s \in OrderByYearDesc(GroupRecords(g, nodes))}

\* DBAgent.query_papers: any error gives the empty list.
QueryPapers(topic, start_year, limit, fault) ==
    /\ calls > 0
    /\ calls' = calls - 1
    /\ prev' = graph
    /\ \E result \in (IF fault = "none"
                       THEN QueryPapersTx(graph, topic, start_year, limit)
                       ELSE {<<>>}) :
          last' = [op |-> "query_papers",
                   args |-> [topic |-> topic, start_year |-> start_year,
                             limit |-> limit],
                   fault |-> fault, ret |-> result, raised |-> FALSE,
                   again |-> FALSE]
    /\ UNCHANGED <<graph, clock, sa, web>>

-----------------------------------------------------------------------------
(* DBAgent.get_related_papers.                                             *)

\* MATCH (p:Paper {id: $paper_id})
\* MATCH (p)-[:HAS_KEYWORD]->(k:Keyword)<-[:HAS_KEYWORD]-(related:Paper)
\* WHERE related.id <> $paper_id: the rows (p, k) found for `related`.  The
\* two relationships of the pattern are distinct, so related is not p.
RelatedRows(g, paper_id, related) ==
    {pk \in PaperNodes(g, paper_id) \X g.keywords :
        /\ pk[1].nid # related.nid
        /\ related.id # paper_id
        /\ pk[2] \in KeywordsOf(g, pk[1].nid)
        /\ pk[2] \in KeywordsOf(g, related.nid)}

\* WITH related, count(k) as common_keywords
CommonKeywords(g, paper_id, related) == Cardinality(RelatedRows(g, paper_id, related))

\* The related papers without ORDER BY and LIMIT.
RelatedTopAll(g, paper_id, limit) ==
    LET cand == {r \in g.papers : CommonKeywords(g, paper_id, r) >= 1}
    IN {NoLimit(s, limit) : s \in Perms(cand)}

\* ORDER BY common_keywords DESC LIMIT $limit: ties come in any order.
RelatedTop(g, paper_id, limit) ==
    LET cand == {r \in g.papers : CommonKeywords(g, paper_id, r) >= 1}
    IN {Limit(s, limit) :
          s \in {t \in Perms(cand) :
                   \A i, j \in 1..Len(t) :
                      i < j => CommonKeywords(g, paper_id, t[i])
                                 >= CommonKeywords(g, paper_id, t[j])}}

\* The aggregating RETURN that follows the second pair of MATCHes has no
\* ORDER BY of its own: Cypher keeps the order of a WITH ... ORDER BY for
\* the next clause only, so the groups come out in any order.
ReturnOrders(R) == Perms(R)

\* DBAgent._get_related_papers_tx: the lists the query may return.
GetRelatedPapersTx(g, paper_id, limit) ==
    UNION {ReturnOrders(GroupRecords(g, {r \in Range(top) : QueryJoins(g, r)}))
           : top \in RelatedTop(g, paper_id, limit)}

\* DBAgent.get_related_papers: any error gives the empty list.
GetRelatedPapers(paper_id, limit, fault) ==
    /\ calls > 0
    /\ calls' = calls - 1
    /\ prev' = graph
    /\ \E result \in (IF fault = "none"
                       THEN GetRelatedPapersTx(graph, paper_id, limit)
                       ELSE {<<>>}) :
          last' = [op |-> "get_related_papers",
                   args |-> [paper_id |-> paper_id, limit |-> limit],
                   fault |-> fault, ret |-> result, raised |-> FALSE,
                   again |-> FALSE]
    /\ UNCHANGED <<graph, clock, sa, web>>

-----------------------------------------------------------------------------
(* SearchAgent.search_papers.  sa.pc is the position of the coroutine,     *)
(* sa.events the log of what it has done to each paper.                    *)

SaIdle ==
    [pc |-> "idle", results |-> <<>>, i |-> 1, paper |-> None,
     papers |-> <<>>, events |-> <<>>]

\* Paper(id=..., has_full_text=False, has_images=False) from an index entry.
BuildPaper(entry) ==
    [id |-> entry.id, title |-> entry.title, authors |-> entry.authors,
     abstract |-> entry.abstract, year |-> entry.year, url |-> entry.url,
     has_full_text |-> FALSE, has_images |-> FALSE,
     full_text |-> None, images |-> None]

\* client.results(search) raises: search_papers logs and re-raises.
SearchIndexFails ==
    /\ sa.pc = "idle"
    /\ calls > 0
    /\ calls' = calls - 1
    /\ sa' = [sa EXCEPT !.pc = "raised"]
    /\ UNCHANGED <<graph, prev, clock, last, web>>

\* results = list(client.results(search))[:max_results]; papers = []
SearchStart(results) ==
    /\ sa.pc = "idle"
    /\ calls > 0
    /\ calls' = calls - 1
    /\ sa' = [SaIdle EXCEPT !.pc = "loop", !.results = results]
    /\ UNCHANGED <<graph, prev, clock, last, web>>

\* for result in results: paper = Paper(...), then in _store_paper_safe
\* pdf_content = await process_pdf_url(paper.url), which answers None on
\* any failure; full_text and images are set when it is truthy.
ExtractPdf(content) ==
    /\ sa.pc = "loop"
    /\ sa.i <= Len(sa.results)
    /\ LET paper == BuildPaper(sa.results[sa.i])
           filled == IF content = None THEN paper
                     ELSE [paper EXCEPT !.full_text = Some(Val(content).text),
                                        !.images = Some(Val(content).images)]
       IN sa' = [sa EXCEPT !.pc = "store", !.paper = Some(filled),
                           !.events = Append(@, <<"extracted", paper.id>>)]
    /\ UNCHANGED <<graph, prev, clock, calls, last, web>>

\* Neo4jHandler.store_paper is declared "async def".
StorePaperIsCoroutineFunction == TRUE

\* asyncio.to_thread(self.db_handler.store_paper, paper) calls store_paper
\* in a worker thread and returns what the call returns.  Calling a
\* coroutine function only builds the coroutine object: its body does not
\* run, and the object is truthy.
ToThreadStorePaper(g, paper, now) ==
    IF StorePaperIsCoroutineFunction
    THEN [graph |-> g, success |-> TRUE, started |-> FALSE]
    ELSE LET tx == NeoCreatePaperTx(g, paper, now)
         IN [graph |-> tx.graph, success |-> (tx.returned >= 1), started |-> TRUE]

\* success = await asyncio.to_thread(...); papers.append(paper)
StorePaperSafe ==
    /\ sa.pc = "store"
    /\ LET paper == Val(sa.paper)
           r == ToThreadStorePaper(graph, paper, clock + 1)
       IN /\ graph' = r.graph
          /\ prev' = graph
          /\ clock' = IF r.started THEN clock + 1 ELSE clock
          /\ sa' = [sa EXCEPT
                      !.pc = "loop", !.i = @ + 1, !.paper = None,
                      !.papers = Append(@, paper),
                      !.events = IF r.started
                                 THEN Append(@, <<"store_started", paper.id>>)
                                 ELSE @]
    /\ UNCHANGED <<calls, last, web>>

\* return papers
SearchReturn ==
    /\ sa.pc = "loop"
    /\ sa.i > Len(sa.results)
    /\ sa' = [sa EXCEPT !.pc = "returned"]
    /\ UNCHANGED <<graph, prev, clock, calls, last, web>>

-----------------------------------------------------------------------------
(* Texts of the QA Orchestrator: sequences of one-character strings.       *)

\* s[:n]
Take(s, n) == SubSeq(s, 1, Min(n, Len(s)))

\* s[n:]
Drop(s, n) == SubSeq(s, n + 1, Len(s))

Whitespace == {" ", "\n", "\t"}

RECURSIVE LStrip(_)
LStrip(s) ==
    IF s # <<>> /\ Head(s) \in Whitespace THEN LStrip(Tail(s)) ELSE s

RECURSIVE RStrip(_)
RStrip(s) ==
    IF s # <<>> /\ s[Len(s)] \in Whitespace
    THEN RStrip(SubSeq(s, 1, Len(s) - 1)) ELSE s

\* str.strip()
Strip(s) == RStrip(LStrip(s))

DigitChars == <<"0", "1", "2", "3", "4", "5", "6", "7", "8", "9">>

\* The decimal digits an f-string writes for a natural number.
RECURSIVE Str(_)
Str(n) ==
    IF n < 10 THEN <<DigitChars[n + 1]>>
    ELSE Str(n \div 10) \o <<DigitChars[(n % 10) + 1]>>

UpperAlpha ==
    <<"A", "B", "C", "D", "E", "F", "G", "H", "I", "J", "K", "L", "M",
      "N", "O", "P", "Q", "R", "S", "T", "U", "V", "W", "X", "Y", "Z">>

LowerAlpha ==
    <<"a", "b", "c", "d", "e", "f", "g", "h", "i", "j", "k", "l", "m",
      "n", "o", "p", "q", "r", "s", "t", "u", "v", "w", "x", "y", "z">>

LowerChar(c) ==
    IF \E i \in 1..Len(UpperAlpha) : UpperAlpha[i] = c
    THEN LowerAlpha[CHOOSE i \in 1..Len(UpperAlpha) : UpperAlpha[i] = c]
    ELSE c

\* str.lower()
Lower(s) == [i \in 1..Len(s) |-> LowerChar(s[i])]

\* sep.join(parts)
RECURSIVE Join(_, _)
Join(sep, parts) ==
    IF parts = <<>> THEN <<>>
    ELSE IF Len(parts) = 1 THEN parts[1]
    ELSE parts[1] \o sep \o Join(sep, Tail(parts))

-----------------------------------------------------------------------------
(* QAAgent (agents/qa_agent.py).                                           *)

ContextChars == 500
TopContexts == 3
ExcerptChars == 200
ContextUsedChars == 1000

FailedToGenerate ==
    <<"F", "a", "i", "l", "e", "d", " ", "t", "o", " ",
      "g", "e", "n", "e", "r", "a", "t", "e", " ",
      "a", "n", "s", "w", "e", "r">>

\* f"Question: {question}\nAnswer:"
Prompt(question) ==
    <<"Q", "u", "e", "s", "t", "i", "o", "n", ":", " ">> \o question
        \o <<"\n", "A", "n", "s", "w", "e", "r", ":">>

\* The engines _generate_answer calls, in order; a fault names the one that
\* raises.
Engines == <<"qa_pipeline", "tokenizer", "llm">>

EngineFaults == {"qa_pipeline", "tokenizer", "llm"}

\* The calls that were made when the engine named by fault raised.
EnginesCalled(fault) ==
    IF fault \in EngineFaults
    THEN SubSeq(Engines, 1, CHOOSE i \in 1..Len(Engines) : Engines[i] = fault)
    ELSE Engines

\* The same body without its try/except: what an engine raises leaves it.
GenerateAnswerUncaught(question, context, fault, score, continuation) ==
    LET prompt == Prompt(question)
        generated_text == prompt \o continuation
    IN [raised |-> fault \in EngineFaults,
        text |-> Strip(Drop(generated_text, Len(prompt))),
        confidence |-> score,
        engines |-> EnginesCalled(fault),
        pipeline_in |-> Some([question |-> question,
                              context |-> Take(context, ContextChars)]),
        prompt |-> IF fault = "qa_pipeline" THEN None ELSE Some(prompt)]

\* QAAgent._generate_answer: the QA pipeline reads the question and
\* context[:500] and gives the score; the prompt for the tokenizer and the
\* generation engine is built from the question; the answer is what the
\* engine wrote after the prompt, stripped.  Whatever raises inside is
\* caught and becomes the fixed answer.
GenerateAnswer(question, context, fault, score, continuation) ==
    LET prompt == Prompt(question)
        generated_text == prompt \o continuation
        failed == fault \in EngineFaults
    IN [raised |-> FALSE,
        text |-> IF failed THEN FailedToGenerate
                 ELSE Strip(Drop(generated_text, Len(prompt))),
        confidence |-> IF failed THEN 0 ELSE score,
        engines |-> EnginesCalled(fault),
        pipeline_in |-> Some([question |-> question,
                              context |-> Take(context, ContextChars)]),
        prompt |-> IF fault = "qa_pipeline" THEN None ELSE Some(prompt)]

\* A _process_paper that reads the full text and nothing else.
ProcessPaperFullText(paper, question) ==
    IF paper.full_text = None \/ Val(paper.full_text) = <<>> THEN None
    ELSE Some([paper_id |-> paper.id, title |-> paper.title,
               text |-> Val(paper.full_text), year |-> paper.year])

\* QAAgent._process_paper.  The class body defines the method twice; the
\* second "def" rebinds the name, so this is the one every call reaches.
\* It reads paper.abstract only; its image handling is commented out.
ProcessPaper(paper, question) ==
    LET content == paper.abstract
    IN IF content = <<>> THEN None
       ELSE Some([paper_id |-> paper.id, title |-> paper.title,
                  text |-> content, year |-> paper.year])

\* The images _process_paper hands to the image processor: none, as the
\* effective definition never calls _process_image_question.
ImagesProcessed(paper, question) == {}

ImageKeywords ==
    {<<"i", "m", "a", "g", "e">>, <<"f", "i", "g", "u", "r", "e">>,
     <<"c", "h", "a", "r", "t">>, <<"g", "r", "a", "p", "h">>,
     <<"d", "i", "a", "g", "r", "a", "m">>, <<"p", "l", "o", "t">>}

\* QAAgent._is_image_question
IsImageQuestion(question) ==
    \E word \in ImageKeywords : IsSubstring(word, Lower(question))

\* QAAgent._gather_contexts
RECURSIVE GatherContexts(_, _)
GatherContexts(papers, question) ==
    IF papers = <<>> THEN <<>>
    ELSE LET context == ProcessPaper(Head(papers), question)
             rest == GatherContexts(Tail(papers), question)
         IN IF context = None THEN rest ELSE <<Val(context)>> \o rest

\* The index orders that list the scores from the lowest to the highest.
AscendingOrders(scores) ==
    {order \in Perms(DOMAIN scores) :
        \A i, j \in 1..Len(order) :
            i < j => scores[order[i]] <= scores[order[j]]}

\* np.argsort(scores)[::-1]: the index orders that list the scores from the
\* highest to the lowest; equal scores come in either order.
RankedOrders(scores) ==
    {order \in Perms(DOMAIN scores) :
        \A i, j \in 1..Len(order) :
            i < j => scores[order[i]] >= scores[order[j]]}

\* TextProcessingService.rank_contexts: [contexts[i] for i in ranked_indices]
RankContexts(contexts, order) == [i \in 1..Len(order) |-> contexts[order[i]]]

\* np.dot of the empty embedding array with the query embedding raises.
RankRaises(contexts, fault) == fault = "ranker" \/ contexts = <<>>

\* f"From {ctx['title']} ({ctx['year']}):\n{ctx['text']}"
ContextBlock(ctx) ==
    <<"F", "r", "o", "m", " ">> \o ctx.title \o <<" ", "(">> \o Str(ctx.year)
        \o <<")", ":", "\n">> \o ctx.text

\* QAAgent._combine_contexts
CombineContexts(contexts) ==
    Join(<<"\n", "\n">>, [i \in 1..Len(contexts) |-> ContextBlock(contexts[i])])

\* QAAgent._format_response as the class body first defines it: the whole
\* text and the whole context.  No call reaches it.
FormatResponseFirst(answer, contexts, combined_context) ==
    [text |-> answer.text,
     confidence |-> answer.confidence,
     sources |-> [i \in 1..Len(contexts) |->
                    [paper_id |-> contexts[i].paper_id,
                     title |-> contexts[i].title,
                     year |-> contexts[i].year,
                     excerpt |-> contexts[i].text]],
     context_used |-> combined_context]

\* QAAgent._format_response (the second, effective definition).
FormatResponse(answer, contexts, combined_context) ==
    [text |-> answer.text,
     confidence |-> answer.confidence,
     sources |-> [i \in 1..Len(contexts) |->
                    [paper_id |-> contexts[i].paper_id,
                     title |-> contexts[i].title,
                     year |-> contexts[i].year,
                     excerpt |-> Take(contexts[i].text, ExcerptChars)
                                     \o <<".", ".", ".">>]],
     context_used |-> Take(combined_context, ContextUsedChars)]

\* A check that lets every request through.
NeverInvalid(papers, question) == FALSE

\* if not papers or not question
NotPapersOrNotQuestion(papers, question) == papers = <<>> \/ question = <<>>

QaIdle ==
    [op |-> "none", papers |-> <<>>, question |-> <<>>, fault |-> "none",
     status |-> "none", error |-> "none", contexts |-> <<>>, scores |-> <<>>,
     ranked |-> <<>>, combined |-> <<>>, engines |-> <<>>,
     pipeline_in |-> None, prompt |-> None, images_read |-> {},
     result |-> None]

\* What one call of answer_question leaves: env carries what the ranker,
\* the QA pipeline and the generation engine do in this call.
AnswerQuestionCall(papers, question, env) ==
    LET call == [QaIdle EXCEPT !.op = "answer_question", !.papers = papers,
                               !.question = question, !.fault = env.fault]
        Answered(contexts, used, combined) ==
            LET answer == GenerateAnswer(question, combined, env.fault,
                                         env.score, env.continuation)
            IN IF answer.raised
               THEN [call EXCEPT !.status = "raised", !.error = "engine",
                                 !.contexts = contexts, !.ranked = used,
                                 !.combined = combined,
                                 !.engines = answer.engines,
                                 !.pipeline_in = answer.pipeline_in,
                                 !.prompt = answer.prompt]
               ELSE [call EXCEPT !.status = "returned",
                                 !.contexts = contexts, !.ranked = used,
                                 !.combined = combined,
                                 !.engines = answer.engines,
                                 !.pipeline_in = answer.pipeline_in,
                                 !.prompt = answer.prompt,
                                 !.result = Some(FormatResponse(answer, used,
                                                                combined))]
    IN IF NotPapersOrNotQuestion(papers, question)
       THEN [call EXCEPT !.status = "raised", !.error = "validation"]
       ELSE IF Len(papers) = 1
       THEN LET context == ProcessPaper(papers[1], question)
            IN IF context = None
               THEN [call EXCEPT !.status = "raised", !.error = "no_content"]
               ELSE [Answered(<<Val(context)>>, <<Val(context)>>,
                              Val(context).text)
                       EXCEPT !.images_read =
                                 ImagesProcessed(papers[1], question)]
       ELSE LET all_contexts == GatherContexts(papers, question)
            IN IF RankRaises(all_contexts, env.fault)
               THEN [call EXCEPT !.status = "raised", !.error = "ranker",
                                 !.contexts = all_contexts]
               ELSE LET sorted_contexts == RankContexts(all_contexts, env.order)
                        top == Take(sorted_contexts, TopContexts)
                    IN [Answered(all_contexts, top, CombineContexts(top))
                          EXCEPT !.scores = env.scores,
                                 !.images_read =
                                    UNION {ImagesProcessed(papers[i], question)
                                           : i \in 1..Len(papers)}]

\* await qa_agent.answer_question(papers, question)
AnswerQuestion(papers, question, env) ==
    /\ calls > 0
    /\ calls' = calls - 1
    /\ env.order \in RankedOrders(env.scores)
    /\ qa' = AnswerQuestionCall(papers, question, env)
    /\ UNCHANGED <<graph, prev, clock, last, sa, api, ui>>

-----------------------------------------------------------------------------
(* The HTTP handlers (main.py).                                            *)

ApiIdle ==
    [op |-> "none", pc |-> "idle", status |-> 0, fields |-> {},
     papers |-> <<>>, count |-> None, work |-> <<>>, i |-> 1, cur |-> None,
     log |-> <<>>, paper_ids |-> <<>>, handed |-> <<>>, paper |-> <<>>,
     question |-> <<>>, engines |-> <<>>, fault |-> "none", prompt |-> <<>>,
     raw |-> <<>>, body |-> None, request |-> None]

\* raise HTTPException(status_code=status, detail=...)
HttpError(op, status) ==
    [ApiIdle EXCEPT !.op = op, !.pc = "done", !.status = status,
                    !.fields = {"detail"}]

\* POST /answer: if not request.paper or not request.question
AnswerRequestInvalid(paper, question) == paper = <<>> \/ question = <<>>

\* POST /answer
ApiAnswer(paper, question, env) ==
    /\ calls > 0
    /\ calls' = calls - 1
    /\ env.order \in RankedOrders(env.scores)
    /\ LET r == AnswerQuestionCall(paper, question, env)
           response ==
               IF AnswerRequestInvalid(paper, question)
               THEN HttpError("answer", 422)
               ELSE IF r.status = "raised"
               THEN [HttpError("answer", 500) EXCEPT !.engines = r.engines]
               ELSE [ApiIdle EXCEPT
                       !.op = "answer", !.pc = "done", !.status = 200,
                       !.fields = {"answer", "confidence", "sources",
                                   "context_used"},
                       !.engines = r.engines, !.body = r.result]
       IN /\ qa' = IF AnswerRequestInvalid(paper, question) THEN qa ELSE r
          /\ api' = [response EXCEPT !.paper = paper, !.question = question]
    /\ UNCHANGED <<graph, prev, clock, last, sa, ui>>

\* Neo4jHandler.get_paper_by_id is declared "async def".
GetPaperByIdIsCoroutineFunction == TRUE

\* paper = await asyncio.to_thread(db_handler.get_paper_by_id, paper_id):
\* the worker thread calls the coroutine function, which only builds the
\* coroutine object; its body, the lookup, does not run.
ToThreadGetPaperById(g, paper_id) ==
    IF GetPaperByIdIsCoroutineFunction
    THEN Some([kind |-> "coroutine", paper_id |-> paper_id])
    ELSE IF PaperNodes(g, paper_id) = {} THEN None
    ELSE Some([kind |-> "paper", paper_id |-> paper_id])

\* for paper_id in request.paper_ids: ... if paper: papers.append(paper)
RECURSIVE RetrievePapers(_, _)
RetrievePapers(g, paper_ids) ==
    IF paper_ids = <<>> THEN <<>>
    ELSE LET paper == ToThreadGetPaperById(g, Head(paper_ids))
             rest == RetrievePapers(g, Tail(paper_ids))
         IN IF paper = None THEN rest ELSE <<Val(paper)>> \o rest

\* FutureWorksAgent defines create_improvement_plan, create_prompt,
\* llm_generate_async, llm_generate and analyze_improvement_plan.
AgentHasGenerateFutureWorkIdeas == FALSE

\* FutureWorksAgent.create_prompt reads p.title, p.year and p.abstract of
\* every element; a coroutine object has none of them.
CreatePromptRaises(papers) ==
    \E i \in 1..Len(papers) : papers[i].kind = "coroutine"

\* POST /future_work
ApiFutureWork(paper_ids) ==
    /\ calls > 0
    /\ calls' = calls - 1
    /\ LET papers == RetrievePapers(graph, paper_ids)
           response ==
               IF papers = <<>> THEN HttpError("future_work", 404)
               ELSE IF ~AgentHasGenerateFutureWorkIdeas
               THEN HttpError("future_work", 500)
               ELSE [ApiIdle EXCEPT !.op = "future_work", !.pc = "done",
                                    !.status = 200, !.handed = papers]
       IN api' = [response EXCEPT !.paper_ids = paper_ids]
    /\ UNCHANGED <<graph, prev, clock, last, sa, qa, ui>>

\* POST /improvement_plan
ApiImprovementPlan(paper_ids) ==
    /\ calls > 0
    /\ calls' = calls - 1
    /\ LET papers == RetrievePapers(graph, paper_ids)
           response ==
               IF papers = <<>> THEN HttpError("improvement_plan", 404)
               ELSE IF CreatePromptRaises(papers)
               THEN [HttpError("improvement_plan", 500)
                       EXCEPT !.handed = papers]
               ELSE [ApiIdle EXCEPT
                       !.op = "improvement_plan", !.pc = "done",
                       !.status = 200,
                       !.fields = {"improvement_plan", "findings", "metrics"},
                       !.handed = papers]
       IN api' = [response EXCEPT !.paper_ids = paper_ids]
    /\ UNCHANGED <<graph, prev, clock, last, sa, qa, ui>>

\* An entry that reports full text and images whatever the paper holds.
EntryOfFlagsSet(paper) ==
    [id |-> paper.id, title |-> paper.title, authors |-> paper.authors,
     abstract |-> paper.abstract, year |-> paper.year, url |-> paper.url,
     has_full_text |-> TRUE, has_images |-> TRUE]

\* The dict POST /search appends for a paper after its extraction.
EntryOf(paper) ==
    [id |-> paper.id, title |-> paper.title, authors |-> paper.authors,
     abstract |-> paper.abstract, year |-> paper.year, url |-> paper.url,
     has_full_text |-> paper.full_text # None /\ Val(paper.full_text) # <<>>,
     has_images |-> paper.images # None /\ Val(paper.images) # <<>>]

\* The dict the "except" of the loop appends.
EntryOfFailure(paper) ==
    [id |-> paper.id, title |-> paper.title, authors |-> paper.authors,
     abstract |-> paper.abstract, year |-> paper.year, url |-> paper.url,
     has_full_text |-> FALSE, has_images |-> FALSE]

\* POST /search: search_agent.search_papers raised; the outer "except"
\* answers 500.
ApiSearchAgentRaised ==
    /\ api.pc = "idle"
    /\ sa.pc = "raised"
    /\ api' = [HttpError("search", 500) EXCEPT !.request = api.request]
    /\ UNCHANGED <<graph, prev, clock, calls, last, sa, qa, ui>>

\* if not papers: return {"status": ..., "papers": [], "message": ...}
ApiSearchNoPapers ==
    /\ api.pc = "idle"
    /\ sa.pc = "returned"
    /\ sa.papers = <<>>
    /\ api' = [ApiIdle EXCEPT !.op = "search", !.pc = "done", !.status = 200,
                              !.fields = {"status", "papers", "message"},
                              !.request = api.request]
    /\ UNCHANGED <<graph, prev, clock, calls, last, sa, qa, ui>>

\* processed_papers = []; for paper in papers
ApiSearchLoop ==
    /\ api.pc = "idle"
    /\ sa.pc = "returned"
    /\ sa.papers # <<>>
    /\ api' = [ApiIdle EXCEPT !.op = "search", !.pc = "loop",
                              !.work = sa.papers, !.request = api.request]
    /\ UNCHANGED <<graph, prev, clock, calls, last, sa, qa, ui>>

\* pdf_content = await pdf_service.process_pdf_url(paper.url); the paper
\* object is the one SearchAgent filled, so what an earlier extraction set
\* stays when this one answers None; then processed_papers.append({...}).
\* The log keeps, for each extraction, the position of the paper, whether
\* it gave a content, and the position of the entry appended with it.
ApiProcessPdf(content) ==
    /\ api.pc = "loop"
    /\ api.i <= Len(api.work)
    /\ LET paper == api.work[api.i]
           filled == IF content = None THEN paper
                     ELSE [paper EXCEPT !.full_text = Some(Val(content).text),
                                        !.images = Some(Val(content).images)]
       IN api' = [api EXCEPT
                    !.pc = "store", !.cur = Some(filled),
                    !.papers = Append(@, EntryOf(filled)),
                    !.log = Append(@, [site |-> "handler", i |-> api.i,
                                       ok |-> content # None,
                                       entry |-> Len(api.papers) + 1])]
    /\ UNCHANGED <<graph, prev, clock, calls, last, sa, qa, ui>>

\* await search_agent._store_paper_safe(paper): a further extraction, then
\* asyncio.to_thread(store_paper, paper).
ApiStorePaperSafe(content) ==
    /\ api.pc = "store"
    /\ LET paper == Val(api.cur)
           r == ToThreadStorePaper(graph, paper, clock + 1)
       IN /\ graph' = r.graph
          /\ prev' = graph
          /\ clock' = IF r.started THEN clock + 1 ELSE clock
          /\ api' = [api EXCEPT
                       !.pc = "loop", !.i = @ + 1, !.cur = None,
                       !.log = Append(@, [site |-> "store", i |-> api.i,
                                          ok |-> content # None,
                                          entry |-> 0])]
    /\ UNCHANGED <<calls, last, sa, qa, ui>>

\* _store_paper_safe re-raises what asyncio.to_thread raises (the executor
\* takes no job); the "except" of the loop appends a second entry.
ApiStorePaperRaises(content) ==
    /\ api.pc = "store"
    /\ LET paper == Val(api.cur)
       IN api' = [api EXCEPT
                    !.pc = "loop", !.i = @ + 1, !.cur = None,
                    !.papers = Append(@, EntryOfFailure(paper)),
                    !.log = Append(@, [site |-> "store", i |-> api.i,
                                       ok |-> content # None,
                                       entry |-> Len(api.papers) + 1])]
    /\ UNCHANGED <<graph, prev, clock, calls, last, sa, qa, ui>>

\* return {"status": ..., "papers": processed_papers, "count": len(...)}
ApiSearchRespond ==
    /\ api.pc = "loop"
    /\ api.i > Len(api.work)
    /\ api' = [api EXCEPT !.pc = "done", !.status = 200,
                          !.fields = {"status", "papers", "count"},
                          !.count = Some(Len(api.papers))]
    /\ UNCHANGED <<graph, prev, clock, calls, last, sa, qa, ui>>

\* SearchRequest.max_results: Optional[int] = 10
RequestMaxResultsDefault == 10

\* search_papers(self, topic, max_results: int = 5)
SearchMaxResultsDefault == 5

\* POST /search with a request body: pydantic fills max_results when the
\* body omits it; the handler awaits search_agent.search_papers(
\* request.topic), so max_results of search_papers is its default, and
\* results = list(client.results(search))[:max_results] of what the index
\* holds for the topic.
ApiSearchRequest(max_results, found) ==
    /\ api.pc = "idle"
    /\ sa.pc = "idle"
    /\ calls > 0
    /\ calls' = calls - 1
    /\ api' = [ApiIdle EXCEPT
                 !.request = Some([max_results |->
                                     IF max_results = None
                                     THEN RequestMaxResultsDefault
                                     ELSE Val(max_results)])]
    /\ sa' = [SaIdle EXCEPT !.pc = "loop",
                            !.results = Take(found, SearchMaxResultsDefault)]
    /\ UNCHANGED <<graph, prev, clock, last, qa, ui>>

-----------------------------------------------------------------------------
(* FutureWorksAgent (agents/future_works_agent.py) and POST /review.       *)

\* "Summary of the work presented:"
SummaryMarker ==
    <<"S", "u", "m", "m", "a", "r", "y", " ", "o", "f", " ", "t", "h", "e",
      " ", "w", "o", "r", "k", " ", "p", "r", "e", "s", "e", "n", "t", "e",
      "d", ":">>

\* "Failed to generate improvement plan."
FailedPlan ==
    <<"F", "a", "i", "l", "e", "d", " ", "t", "o", " ", "g", "e", "n", "e",
      "r", "a", "t", "e", " ", "i", "m", "p", "r", "o", "v", "e", "m", "e",
      "n", "t", " ", "p", "l", "a", "n", ".">>

\* f"Title: {p.title}\nYear: {p.year}\nAbstract: {p.abstract}"
PaperText(p) ==
    <<"T", "i", "t", "l", "e", ":", " ">> \o p.title
        \o <<"\n", "Y", "e", "a", "r", ":", " ">> \o Str(p.year)
        \o <<"\n", "A", "b", "s", "t", "r", "a", "c", "t", ":", " ">>
        \o p.abstract

PromptHead ==
    <<"U", "s", "i", "n", "g", " ", "t", "h", "e", " ", "k", "e", "y", " ",
      "f", "i", "n", "d", "i", "n", "g", "s", " ", "f", "r", "o", "m", " ",
      "t", "h", "e", " ", "f", "o", "l", "l", "o", "w", "i", "n", "g", " ",
      "p", "a", "p", "e", "r", "s", ":", "\n", "\n">>

PromptTail ==
    <<"\n", "\n", "G", "e", "n", "e", "r", "a", "t", "e", " ", "a", "n",
      " ", "i", "m", "p", "r", "o", "v", "e", "m", "e", "n", "t", " ", "p",
      "l", "a", "n", " ", "t", "h", "a", "t", " ", "i", "n", "c", "l", "u",
      "d", "e", "s", " ", "n", "o", "v", "e", "l", " ", "c", "o", "n", "t",
      "r", "i", "b", "u", "t", "i", "o", "n", "s", " ", "a", "n", "d", " ",
      "s", "u", "g", "g", "e", "s", "t", "i", "o", "n", "s", " ", "f", "o",
      "r", " ", "n", "e", "w", " ", "r", "e", "s", "e", "a", "r", "c", "h",
      " ", "d", "i", "r", "e", "c", "t", "i", "o", "n", "s", ".", " ", "S",
      "t", "r", "u", "c", "t", "u", "r", "e", " ", "i", "t", " ", "a", "s",
      " ", "a", " ", "c", "o", "h", "e", "s", "i", "v", "e", " ", "p", "l",
      "a", "n", ".", "\n", "\n", "S", "u", "m", "m", "a", "r", "y", " ",
      "o", "f", " ", "t", "h", "e", " ", "w", "o", "r", "k", " ", "p", "r",
      "e", "s", "e", "n", "t", "e", "d", ":", "\n">>

\* FutureWorksAgent.create_prompt
CreatePrompt(papers) ==
    PromptHead
        \o Join(<<"\n", "\n">>, [i \in 1..Len(papers) |-> PaperText(papers[i])])
        \o PromptTail

\* str.find: the index of the first occurrence of t in s, 0 when there is
\* none.
Find(s, t) ==
    LET at == {i \in 1..(Len(s) - Len(t) + 1) :
                  SubSeq(s, i, i + Len(t) - 1) = t}
    IN IF at = {} THEN 0 ELSE CHOOSE i \in at : \A j \in at : i <= j

\* The engines llm_generate_async and llm_generate call, in order; a fault
\* names the one that raises.
WritingFaults == {"executor", "tokenizer", "generate"}

\* FutureWorksAgent.llm_generate behind llm_generate_async: the decoded
\* output of a causal model is the prompt followed by what the model
\* wrote; everything after the first marker is kept, stripped.  Both
\* methods catch what is raised and answer the fixed text.
LlmGenerate(prompt, fault, continuation) ==
    LET decoded == prompt \o continuation
        summary_start == Find(decoded, SummaryMarker)
    IN [raw |-> IF fault \in WritingFaults THEN <<>> ELSE decoded,
        plan |-> IF fault \in WritingFaults THEN FailedPlan
                 ELSE IF summary_start # 0
                 THEN Strip(Drop(decoded,
                                 summary_start + Len(SummaryMarker) - 1))
                 ELSE decoded]

\* FutureWorksAgent.analyze_improvement_plan: fixed values.
AnalyzeImprovementPlan(plan) ==
    [findings |-> <<"Finding 1: Enhanced methodology improves accuracy by 15%.",
                    "Finding 2: Incorporating X technique reduces computational overhead.">>,
     metrics |-> [accuracy_improvement |-> 15,
                  computational_efficiency_gain |-> 20]]

\* FutureWorksAgent.create_improvement_plan on Paper objects.
CreateImprovementPlan(papers, fault, continuation) ==
    LET prompt == CreatePrompt(papers)
        generated == LlmGenerate(prompt, fault, continuation)
        analysis == AnalyzeImprovementPlan(generated.plan)
    IN [prompt |-> prompt, raw |-> generated.raw,
        improvement_plan |-> generated.plan,
        findings |-> analysis.findings, metrics |-> analysis.metrics]

\* POST /review
ApiReview(paper, fault, continuation) ==
    /\ calls > 0
    /\ calls' = calls - 1
    /\ LET review_data == CreateImprovementPlan(paper, fault, continuation)
           response ==
               IF paper = <<>> THEN HttpError("review", 422)
               ELSE [ApiIdle EXCEPT
                       !.op = "review", !.pc = "done", !.status = 200,
                       !.fields = {"review", "findings", "metrics"},
                       !.prompt = review_data.prompt,
                       !.raw = review_data.raw,
                       !.body = Some([review |-> review_data.improvement_plan,
                                      findings |-> review_data.findings,
                                      metrics |-> review_data.metrics])]
       IN api' = [response EXCEPT !.paper = paper, !.fault = fault]
    /\ UNCHANGED <<graph, prev, clock, last, sa, qa, ui>>

-----------------------------------------------------------------------------
(* The chat front-end (frontend/app.py).                                   *)

UiIdle ==
    [papers |-> <<>>, selected_papers |-> <<>>, widget |-> None,
     run |-> "none", message |-> <<>>, intent |-> "none", http |-> <<>>,
     reply |-> "none", response |-> None, before |-> <<>>,
     returned |-> None]

\* The keyword lists of detect_intent.
IntentWords ==
    [search |->
        {<<"s", "e", "a", "r", "c", "h">>,
         <<"s", "h", "o", "w">>,
         <<"p", "a", "p", "e", "r", "s">>},
     qa |->
        {<<"e", "x", "p", "l", "a", "i", "n">>,
         <<"w", "h", "a", "t">>,
         <<"h", "o", "w">>,
         <<"w", "h", "y">>,
         <<"d", "e", "s", "c", "r", "i", "b", "e">>},
     review |->
        {<<"r", "e", "v", "i", "e", "w">>,
         <<"s", "u", "m", "m", "a", "r", "i", "z", "e">>,
         <<"s", "u", "m", "m", "a", "r", "y">>},
     future_works |->
        {<<"f", "u", "t", "u", "r", "e">>,
         <<"i", "m", "p", "r", "o", "v", "e", "m", "e", "n", "t", "s">>,
         <<"s", "u", "g", "g", "e", "s", "t", "i", "o", "n", "s">>}]

\* detect_intent without message.lower().
DetectIntentAsTyped(message) ==
    LET AnyIn(words) == \E x \in words : IsSubstring(x, message)
    IN IF AnyIn(IntentWords.search) THEN "search"
       ELSE IF AnyIn(IntentWords.qa) THEN "qa"
       ELSE IF AnyIn(IntentWords.review) THEN "review"
       ELSE IF AnyIn(IntentWords.future_works) THEN "future_works"
       ELSE "qa"

\* detect_intent
DetectIntent(message) ==
    LET lowered == Lower(message)
        AnyIn(words) == \E x \in words : IsSubstring(x, lowered)
    IN IF AnyIn(IntentWords.search) THEN "search"
       ELSE IF AnyIn(IntentWords.qa) THEN "qa"
       ELSE IF AnyIn(IntentWords.review) THEN "review"
       ELSE IF AnyIn(IntentWords.future_works) THEN "future_works"
       ELSE "qa"

\* if not st.session_state.selected_papers
NothingSelected(selected_papers) == selected_papers = <<>>

\* process_message: what it leaves in the session state, the requests it
\* sends and the kind of text it returns.  response is what the backend
\* answers to the request, status 0 standing for requests.post raising.
ProcessMessage(session, user_message, response) ==
    LET intent == DetectIntent(user_message)
        Out(papers, selected_papers, http, reply) ==
            [papers |-> papers, selected_papers |-> selected_papers,
             intent |-> intent, http |-> http, reply |-> reply]
        Kept(http, reply) ==
            Out(session.papers, session.selected_papers, http, reply)
        Post(endpoint) ==
            <<[endpoint |-> endpoint,
               paper |-> IF endpoint = "/search" THEN <<>>
                         ELSE session.selected_papers]>>
    IN IF intent = "search"
       THEN IF response.status = 0 THEN Kept(Post("/search"), "exception")
            ELSE IF response.status # 200
            THEN Kept(Post("/search"), "error_fetching")
            ELSE IF ~({"papers", "count"} \subseteq response.fields)
            THEN Kept(Post("/search"), "exception")
            ELSE Out(response.papers, <<>>, Post("/search"), "found")
       ELSE IF intent = "qa"
       THEN IF NothingSelected(session.selected_papers)
            THEN Kept(<<>>, "select_for_qa")
            ELSE IF response.status = 0 THEN Kept(Post("/answer"), "exception")
            ELSE IF response.status # 200
            THEN Kept(Post("/answer"), "server_status")
            ELSE IF "answer" \in response.fields
            THEN Kept(Post("/answer"), "answer")
            ELSE Kept(Post("/answer"), "no_answer")
       ELSE IF NothingSelected(session.selected_papers)
            THEN Kept(<<>>, "select_first")
            ELSE IF response.status = 0 THEN Kept(Post("/review"), "exception")
            ELSE IF response.status # 200
            THEN Kept(Post("/review"), "error_review")
            ELSE IF "review" \in response.fields
            THEN Kept(Post("/review"), "review")
            ELSE Kept(Post("/review"), "exception")

\* list(paper_dict.keys()): the ids of the papers, each once, in the order
\* of their first occurrence.
RECURSIVE Keys(_)
Keys(papers) ==
    IF papers = <<>> THEN <<>>
    ELSE LET before == Keys(SubSeq(papers, 1, Len(papers) - 1))
             id == papers[Len(papers)].id
         IN IF id \in Range(before) THEN before ELSE Append(before, id)

\* The sidebar of the script.  The multiselect has no key: it is the
\* widget of the previous run, and answers the value kept for it, when
\* its options and its default are those of the widget rendered in the
\* previous run; otherwise it is a new widget and answers its default.  A
\* default that is not among the options raises and ends the run.
Sidebar(papers, selected_papers, stored) ==
    IF papers = <<>>
    THEN [selected_papers |-> selected_papers, widget |-> None]
    ELSE LET options == Keys(papers)
             default == [i \in 1..Len(selected_papers) |->
                            selected_papers[i].id]
         IN IF ~(Range(default) \subseteq Range(options))
            THEN [selected_papers |-> selected_papers, widget |-> None]
            ELSE LET selected_paper_ids ==
                         IF /\ stored # None
                            /\ Val(stored).options = options
                            /\ Val(stored).default = default
                         THEN Val(stored).value
                         ELSE Range(default)
                     Selected(p) == p.id \in selected_paper_ids
                 IN [selected_papers |-> SelectSeq(papers, Selected),
                     widget |-> Some([options |-> options,
                                      default |-> default,
                                      value |-> selected_paper_ids])]

\* What the backend can answer to the requests a run sends.
ResponsesTo(http, found) ==
    IF http = <<>> THEN {[status |-> 0, fields |-> {}, papers |-> <<>>]}
    ELSE {[status |-> 0, fields |-> {}, papers |-> <<>>],
          [status |-> 500, fields |-> {"detail"}, papers |-> <<>>]}
         \cup
         (IF http[1].endpoint = "/search"
          THEN {[status |-> 200, fields |-> {"status", "papers", "message"},
                 papers |-> <<>>]}
               \cup {[status |-> 200, fields |-> {"status", "papers", "count"},
                      papers |-> f] : f \in found \ {<<>>}}
          ELSE IF http[1].endpoint = "/answer"
          THEN {[status |-> 200,
                 fields |-> {"answer", "confidence", "sources", "context_used"},
                 papers |-> <<>>]}
          ELSE {[status |-> 200, fields |-> {"review", "findings", "metrics"},
                 papers |-> <<>>]})

\* A script run started by the chat input: process_message, then the
\* sidebar.  "before" and "returned" keep selected_papers as
\* process_message found and left it, "response" what the backend answered.
UiChat(user_message, response) ==
    /\ calls > 0
    /\ calls' = calls - 1
    /\ LET m == ProcessMessage(ui, user_message, response)
           s == Sidebar(m.papers, m.selected_papers, ui.widget)
       IN ui' = [papers |-> m.papers, selected_papers |-> s.selected_papers,
                 widget |-> s.widget, run |-> "chat",
                 message |-> user_message, intent |-> m.intent,
                 http |-> m.http, reply |-> m.reply,
                 response |-> IF m.http = <<>> THEN None ELSE Some(response),
                 before |-> ui.selected_papers,
                 returned |-> Some(m.selected_papers)]
    /\ UNCHANGED <<graph, prev, clock, last, sa, api, qa>>

\* A script run started by the user changing the multiselect to choice:
\* no chat input, the sidebar alone touches the session state.
UiSelect(choice) ==
    /\ calls > 0
    /\ ui.widget # None
    /\ choice \subseteq Range(Val(ui.widget).options)
    /\ choice # Val(ui.widget).value
    /\ calls' = calls - 1
    /\ LET s == Sidebar(ui.papers, ui.selected_papers,
                        Some([Val(ui.widget) EXCEPT !.value = choice]))
       IN ui' = [ui EXCEPT !.selected_papers = s.selected_papers,
                           !.widget = s.widget, !.run = "select",
                           !.message = <<>>, !.intent = "none",
                           !.http = <<>>, !.reply = "none",
                           !.response = None,
                           !.before = ui.selected_papers,
                           !.returned = None]
    /\ UNCHANGED <<graph, prev, clock, last, sa, api, qa>>

-----------------------------------------------------------------------------
(* Inputs.                                                                 *)

Img1 == [page |-> 1, index |-> 1, type |-> "png", data |-> "b64"]

\* Two versions of a paper: they differ in every field a store writes.
Versions ==
    {[title |-> T_xq, abstract |-> T_x, year |-> 2019, url |-> "u1",
      full_text |-> None],
     [title |-> T_x, abstract |-> T_q, year |-> 2021, url |-> "u2",
      full_text |-> Some(T_xq)]}

StoreIds == {"p1", "p2"}

\* models.schemas.Paper values handed to Neo4jHandler.store_paper.
NeoPapers ==
    {[id |-> i, title |-> v.title, authors |-> a, abstract |-> v.abstract,
      year |-> v.year, url |-> v.url, has_full_text |-> FALSE,
      has_images |-> FALSE, full_text |-> v.full_text, images |-> im]
     : i \in StoreIds, v \in Versions, a \in {<<>>, <<"A">>},
       im \in {None, Some(<<>>), Some(<<Img1>>)}}

\* agents.db_agent.Paper values handed to DBAgent.store_paper.
DBPapers ==
    {[id |-> i, title |-> v.title, authors |-> a, summary |-> v.abstract,
      year |-> v.year, url |-> v.url, keywords |-> k]
     : i \in StoreIds, v \in Versions, a \in {<<>>, <<"A">>},
       k \in {None, Some(<<>>), Some(<<"k1">>)}}

InitCommon ==
    /\ graph = EmptyGraph
    /\ prev = EmptyGraph
    /\ clock = 0
    /\ last = [op |-> "none", args |-> None, fault |-> "none", ret |-> FALSE,
               raised |-> FALSE, again |-> FALSE]
    /\ sa = SaIdle
    /\ api = ApiIdle
    /\ qa = QaIdle
    /\ ui = UiIdle

-----------------------------------------------------------------------------
(* SpecStore: the write side of the Paper Store and its point lookup.      *)

InitStore == InitCommon /\ calls = MaxCalls

NextStore ==
    \/ \E paper \in NeoPapers : NeoStorePaper(paper, "none")
    \/ \E paper \in DBPapers : DBStorePaper(paper, "none")
    \/ \E paper \in {p \in NeoPapers : p.id = "p1" /\ p.images = None},
          fault \in Faults : NeoStorePaper(paper, fault)
    \/ \E paper \in {p \in DBPapers : p.id = "p1" /\ p.keywords = None},
          fault \in Faults : DBStorePaper(paper, fault)
    \/ \E id \in StoreIds, fault \in {"none"} \cup Faults : GetPaperById(id, fault)

SpecStore == InitStore /\ [][NextStore]_vars

-----------------------------------------------------------------------------
(* SpecQuery: papers stored through either store, then searched.           *)

QueryIds == {"p1", "p2"}

QueryDBPapers ==
    {[id |-> i, title |-> t, authors |-> <<"A">>, summary |-> sm,
      year |-> y, url |-> "u1", keywords |-> k]
     : i \in QueryIds, t \in {T_xq, T_x}, sm \in {T_q, T_Q},
       y \in {2019, 2021}, k \in {Some(<<>>), Some(<<"k1">>)}}

QueryNeoPapers ==
    {[id |-> i, title |-> T_x, authors |-> <<"A">>, abstract |-> T_q,
      year |-> 2021, url |-> "u1", has_full_text |-> FALSE,
      has_images |-> FALSE, full_text |-> None, images |-> None]
     : i \in QueryIds}

Topics == {T_q, T_Q}
StartYears == {2019, 2020}
Limits == 0..MaxLimit

InitQuery == InitCommon /\ calls = MaxQueryCalls

NextQuery ==
    \/ \E paper \in QueryDBPapers : DBStorePaper(paper, "none")
    \/ \E paper \in QueryNeoPapers : NeoStorePaper(paper, "none")
    \/ \E topic \in Topics, start_year \in StartYears, limit \in Limits :
          QueryPapers(topic, start_year, limit, "none")
    \/ \E fault \in Faults : QueryPapers(T_q, 2019, MaxLimit, fault)

SpecQuery == InitQuery /\ [][NextQuery]_vars

-----------------------------------------------------------------------------
(* SpecRelated: papers stored with keywords, then related-paper lookups.   *)

RelatedIds == {"p1", "p2", "p3"}

RelatedDBPapers ==
    {[id |-> i, title |-> T_x, authors |-> a, summary |-> T_q,
      year |-> 2021, url |-> "u1", keywords |-> Some(k)]
     : i \in RelatedIds, a \in {<<>>, <<"A">>},
       k \in {<<"k1">>, <<"k2">>, <<"k1", "k2">>}}

InitRelated == InitCommon /\ calls = MaxRelatedCalls

NextRelated ==
    \/ \E paper \in RelatedDBPapers : DBStorePaper(paper, "none")
    \/ \E id \in RelatedIds, limit \in Limits : GetRelatedPapers(id, limit, "none")
    \/ \E fault \in Faults : GetRelatedPapers("p1", MaxLimit, fault)

SpecRelated == InitRelated /\ [][NextRelated]_vars

-----------------------------------------------------------------------------
(* SpecSearch: one run of SearchAgent.search_papers on an empty graph.     *)

IndexEntries ==
    {[id |-> i, title |-> v.title, authors |-> <<"A">>, abstract |-> v.abstract,
      year |-> v.year, url |-> v.url] : i \in StoreIds, v \in Versions}

\* Every list of at most n index entries.
ResultLists(n) == UNION {[1..k -> IndexEntries] : k \in 0..n}

\* What process_pdf_url answers: None, or the text and the image records.
PdfContents ==
    {None, Some([text |-> T_xq, images |-> <<>>]),
     Some([text |-> T_xq, images |-> <<Img1>>])}

InitSearch == InitCommon /\ calls = 1

NextSearch ==
    \/ SearchIndexFails
    \/ \E results \in ResultLists(MaxBatch) : SearchStart(results)
    \/ \E content \in PdfContents : ExtractPdf(content)
    \/ StorePaperSafe
    \/ SearchReturn

SpecSearch == InitSearch /\ [][NextSearch]_vars

-----------------------------------------------------------------------------
(* SpecQA: one call of QAAgent.answer_question or of POST /answer.         *)

MaxPapers == 4

QaPaper(id, title, abstract, year, full_text, images) ==
    [id |-> id, title |-> title, authors |-> <<"A">>, abstract |-> abstract,
     year |-> year, url |-> "u1", has_full_text |-> full_text # None,
     has_images |-> images # None, full_text |-> full_text, images |-> images]

\* Papers with and without abstract, full text and images.
QaPapers ==
    <<QaPaper("q1", T_x, <<"a", "b">>, 2019, None, None),
      QaPaper("q2", T_q, <<"c">>, 2021, Some(<<"f", " ", "t">>), Some(<<Img1>>)),
      QaPaper("q3", T_xq, <<>>, 2020, Some(<<"f">>), None),
      QaPaper("q4", T_Q, <<"d">>, 2008, None, Some(<<Img1>>)),
      QaPaper("q5", T_x, <<"e">>, 2021, None, None)>>

\* The indices of S in increasing order.
Ascending(S) ==
    CHOOSE f \in Perms(S) : \A i, j \in 1..Len(f) : i < j => f[i] < f[j]

\* Every selection of at most n of the papers, in the order of QaPapers.
PaperLists(n) ==
    {[i \in 1..Cardinality(S) |-> QaPapers[Ascending(S)[i]]]
     : S \in {T \in SUBSET (1..Len(QaPapers)) : Cardinality(T) <= n}}

Questions == {<<>>, <<"w", "h", "y">>, <<"P", "l", "o", "t">>}

\* What the ranker, the QA pipeline and the generation engine can do: the
\* fault, and the score and the continuation they give without one.
QaFaults == {"none", "ranker"} \cup EngineFaults
ScoreLevels == {1, 2}
Generations ==
    {[score |-> 0, continuation |-> <<>>],
     [score |-> 1, continuation |-> <<" ", "o", "k", "\n">>]}

QaEnv(fault, gen, ranking) ==
    [fault |-> fault, score |-> gen.score, continuation |-> gen.continuation,
     scores |-> ranking.scores, order |-> ranking.order]

\* The outcomes of ranking n contexts.
Rankings(n) ==
    {r \in [scores : [1..n -> ScoreLevels], order : Perms(1..n)] :
        r.order \in RankedOrders(r.scores)}

InitQA == InitCommon /\ calls = 1

NextQA ==
    \/ /\ calls > 0
       /\ \E papers \in PaperLists(MaxPapers), question \in Questions,
             fault \in QaFaults, gen \in Generations :
             \E r \in Rankings(Len(GatherContexts(papers, question))) :
                AnswerQuestion(papers, question, QaEnv(fault, gen, r))
    \/ /\ calls > 0
       /\ \E paper \in PaperLists(MaxPapers), question \in Questions,
             fault \in QaFaults, gen \in Generations :
             \E r \in Rankings(Len(GatherContexts(paper, question))) :
                ApiAnswer(paper, question, QaEnv(fault, gen, r))

SpecQA == InitQA /\ [][NextQA]_vars

-----------------------------------------------------------------------------
(* SpecQAFormat: one call of QAAgent.answer_question on papers whose       *)
(* abstracts are longer than what a response echoes.                       *)

\* A text of n characters.
LongText(n) == [i \in 1..n |-> DigitChars[(i % 10) + 1]]

FormatPapers ==
    <<QaPaper("q1", T_x, LongText(1100), 2019, None, None),
      QaPaper("q2", T_q, LongText(450), 2021, None, None),
      QaPaper("q3", T_xq, LongText(200), 2020, None, None),
      QaPaper("q4", T_Q, LongText(150), 2008, None, None)>>

\* Every selection of the papers, in the order of FormatPapers.
FormatLists ==
    {[i \in 1..Cardinality(S) |-> FormatPapers[Ascending(S)[i]]]
     : S \in SUBSET (1..Len(FormatPapers))}

InitQAFormat == InitCommon /\ calls = 1

NextQAFormat ==
    /\ calls > 0
    /\ \E papers \in FormatLists, question \in Questions,
          fault \in QaFaults, gen \in Generations :
          \E r \in Rankings(Len(GatherContexts(papers, question))) :
             AnswerQuestion(papers, question, QaEnv(fault, gen, r))

SpecQAFormat == InitQAFormat /\ [][NextQAFormat]_vars

-----------------------------------------------------------------------------
(* SpecUi: script runs of the chat front-end, started by chat messages and *)
(* by changes of the multiselect.                                          *)

MaxRuns == 3

UiPaper(id, has_full_text) ==
    [id |-> id, title |-> T_x, has_full_text |-> has_full_text]

\* The lists of papers a search can answer; the same id can come twice.
UiFound ==
    LET entries == {UiPaper("p1", TRUE), UiPaper("p1", FALSE),
                    UiPaper("p2", TRUE)}
    IN UNION {[1..k -> entries] : k \in 0..2}

\* A message for each branch of process_message.
UiMessages ==
    {<<"s", "h", "o", "w", " ", "p", "a", "p", "e", "r", "s">>,
     <<"w", "h", "y">>,
     <<"r", "e", "v", "i", "e", "w">>,
     <<"f", "u", "t", "u", "r", "e">>,
     <<"h", "e", "l", "l", "o">>}

InitUi == InitCommon /\ calls = MaxRuns

NextUi ==
    \/ /\ calls > 0
       /\ \E user_message \in UiMessages :
             \E response \in ResponsesTo(
                                ProcessMessage(ui, user_message,
                                               [status |-> 0]).http, UiFound) :
                UiChat(user_message, response)
    \/ /\ calls > 0
       /\ ui.widget # None
       /\ \E choice \in SUBSET Range(Val(ui.widget).options) : UiSelect(choice)

SpecUi == InitUi /\ [][NextUi]_vars

-----------------------------------------------------------------------------
(* SpecIntent: one chat message made of up to MaxFragments fragments.      *)

MaxFragments == 2

\* Keywords of every group as typed in lower, upper and mixed case, and
\* text that holds none.
IntentFragments ==
    {<<"s", "h", "o", "w">>,
     <<"P", "A", "P", "E", "R", "S">>,
     <<"w", "h", "y">>,
     <<"W", "h", "a", "t">>,
     <<"R", "e", "v", "i", "e", "w">>,
     <<"s", "u", "m", "m", "a", "r", "y">>,
     <<"f", "u", "t", "u", "r", "e">>,
     <<"S", "u", "g", "g", "e", "s", "t", "i", "o", "n", "s">>,
     <<"h", "i", " ">>,
     <<"x">>}

RECURSIVE IntentMessages(_)
IntentMessages(n) ==
    IF n = 0 THEN {<<>>}
    ELSE LET shorter == IntentMessages(n - 1)
         IN shorter \cup {m \o f : m \in shorter, f \in IntentFragments}

InitIntent == InitCommon /\ calls = 1

NextIntent ==
    /\ calls > 0
    /\ \E user_message \in IntentMessages(MaxFragments) :
          UiChat(user_message, [status |-> 0, fields |-> {}, papers |-> <<>>])

SpecIntent == InitIntent /\ [][NextIntent]_vars

-----------------------------------------------------------------------------
(* SpecWriting: papers are stored, then POST /future_work or               *)
(* POST /improvement_plan is called.                                       *)

MaxIds == 2

WritingIds == StoreIds \cup {"p9"}

\* Every list of at most n paper ids.
IdLists(n) == UNION {[1..k -> WritingIds] : k \in 0..n}

InitWriting == InitCommon /\ calls = 2

NextWriting ==
    \/ \E paper \in NeoPapers : NeoStorePaper(paper, "none")
    \/ \E paper_ids \in IdLists(MaxIds) : ApiFutureWork(paper_ids)
    \/ \E paper_ids \in IdLists(MaxIds) : ApiImprovementPlan(paper_ids)

SpecWriting == InitWriting /\ [][NextWriting]_vars

-----------------------------------------------------------------------------
(* SpecApiSearch: one POST /search request on an empty graph.              *)

ApiIndexEntries ==
    {e \in IndexEntries : \/ e.id = "p1" /\ e.year = 2019
                          \/ e.id = "p2" /\ e.year = 2021}

\* Every list of at most n of these entries.
ApiResultLists(n) == UNION {[1..k -> ApiIndexEntries] : k \in 0..n}

InitApiSearch == InitCommon /\ calls = 1

NextApiSearch ==
    \/ SearchIndexFails
    \/ \E results \in ApiResultLists(MaxBatch) : SearchStart(results)
    \/ \E content \in PdfContents : ExtractPdf(content)
    \/ StorePaperSafe
    \/ SearchReturn
    \/ ApiSearchAgentRaised
    \/ ApiSearchNoPapers
    \/ ApiSearchLoop
    \/ \E content \in PdfContents : ApiProcessPdf(content)
    \/ \E content \in PdfContents : ApiStorePaperSafe(content)
    \/ \E content \in PdfContents : ApiStorePaperRaises(content)
    \/ ApiSearchRespond

SpecApiSearch == InitApiSearch /\ [][NextApiSearch]_vars

-----------------------------------------------------------------------------
(* SpecReview: one POST /review request.                                   *)

MaxReviewed == 2

ReviewPaper(id, title, abstract, year) ==
    [id |-> id, title |-> title, authors |-> <<"A">>, abstract |-> abstract,
     year |-> year, url |-> "u1", has_full_text |-> FALSE,
     has_images |-> FALSE, full_text |-> None, images |-> None]

\* Papers to review; the abstract of one quotes the marker text.
ReviewPapers ==
    {ReviewPaper("r1", T_x, <<"a", "b">>, 2019),
     ReviewPaper("r2", T_q, SummaryMarker \o <<" ", "c">>, 2021),
     ReviewPaper("r3", T_xq, <<>>, 2020),
     ReviewPaper("r4", T_Q, <<"d">>, 2008)}

\* Every list of at most n of these papers.
ReviewLists(n) == UNION {[1..k -> ReviewPapers] : k \in 0..n}

\* What the model writes after the prompt.
PlanContinuations ==
    {<<>>, <<" ", "d", "o", " ", "m", "o", "r", "e", "\n">>,
     <<"n", "e", "w", " ">> \o SummaryMarker \o <<" ", "e", "n", "d">>,
     <<"\n", "1", ".", " ", "p", "l", "a", "n">>}

InitReview == InitCommon /\ calls = 1

NextReview ==
    \/ /\ calls > 0
       /\ \E paper \in ReviewLists(MaxReviewed),
             continuation \in PlanContinuations :
             ApiReview(paper, "none", continuation)
    \/ /\ calls > 0
       /\ \E paper \in ReviewLists(MaxReviewed), fault \in WritingFaults :
             ApiReview(paper, fault, <<>>)

SpecReview == InitReview /\ [][NextReview]_vars

-----------------------------------------------------------------------------
(* SpecImages: Neo4jHandler.store_paper on papers that carry an image.     *)

ImagePapers == {p \in NeoPapers : p.images = Some(<<Img1>>)}

InitImages == InitCommon /\ calls = MaxCalls

NextImages == \E paper \in ImagePapers : NeoStorePaper(paper, "none")

SpecImages == InitImages /\ [][NextImages]_vars

-----------------------------------------------------------------------------
(* SpecSearchLimit: one POST /search request with its max_results, on an  *)
(* index that holds up to MaxFound papers for the topic; no PDF can be     *)
(* read.                                                                   *)

MaxFound == 6

\* max_results of the request body: omitted, or a number.
RequestLimits == {None} \cup {Some(n) : n \in 1..3}

FoundLists == {[i \in 1..k |-> e] : k \in 0..MaxFound, e \in ApiIndexEntries}

InitSearchLimit == InitCommon /\ calls = 1

NextSearchLimit ==
    \/ \E max_results \in RequestLimits, found \in FoundLists :
          ApiSearchRequest(max_results, found)
    \/ ExtractPdf(None)
    \/ StorePaperSafe
    \/ SearchReturn
    \/ ApiSearchNoPapers
    \/ ApiSearchLoop
    \/ ApiProcessPdf(None)
    \/ ApiStorePaperSafe(None)
    \/ ApiSearchRespond

SpecSearchLimit == InitSearchLimit /\ [][NextSearchLimit]_vars

-----------------------------------------------------------------------------
(* Properties of the Paper Store's write side (SpecStore).                 *)

IsStore == last.op \in {"neo_store", "db_store"}

\* The store call ran without a storage error.
Committed == IsStore /\ last.fault = "none"

StoredNodes == PaperNodes(graph, last.args.id)

\* The fields the call writes are those of the paper it was given.
FieldsOfCall(n) ==
    /\ n.title = last.args.title
    /\ n.year = last.args.year
    /\ n.url = last.args.url
    /\ last.op = "neo_store" =>
          n.abstract = Some(last.args.abstract) /\ n.full_text = last.args.full_text
    /\ last.op = "db_store" => n.summary = Some(last.args.summary)

\* The graph without the updated_at stamps of its Paper nodes.
Unstamped(g) ==
    [g EXCEPT !.papers = {[n EXCEPT !.updated_at = 0] : n \in g.papers}]

\* C1 (as amended): after store_paper(paper), in whatever graph it ran,
\* exactly one Paper node has the paper's id and its title and other fields
\* are those of this call; a store_paper that repeats the call before it
\* changes nothing but the updated_at stamp of that node.
C1_UpsertOneNodeLatestWins ==
    Committed =>
        /\ Cardinality(StoredNodes) = 1
        /\ \A n \in StoredNodes : FieldsOfCall(n)
        /\ last.again => Unstamped(graph) = Unstamped(prev)

\* C1 as stated: the repeated call changes nothing at all.
C1_RepeatChangesNothing ==
    Committed =>
        /\ Cardinality(StoredNodes) = 1
        /\ \A n \in StoredNodes : FieldsOfCall(n)
        /\ last.again => graph = prev

\* A second version of a paper was stored over a first with another title.
C1_Witness ==
    /\ Committed
    /\ \E n \in PaperNodes(prev, last.args.id) : n.title # last.args.title
    /\ \E n \in StoredNodes : n.title = last.args.title

\* The keywords and images the stored paper carries.
CarriedKeywords ==
    IF last.op = "db_store" THEN UnwindList(last.args.keywords)
    ELSE NeoKeywords(last.args)

CarriedImages ==
    IF last.op = "neo_store" THEN UnwindList(last.args.images) ELSE <<>>

\* C2: after a store_paper without storage error, every author, keyword
\* and image of the paper has its node, linked to the Paper node.
C2_AllRelationshipsStored ==
    Committed =>
        \A n \in StoredNodes :
            /\ \A a \in Range(last.args.authors) :
                  a \in graph.authors /\ <<a, n.nid>> \in graph.authored
            /\ \A k \in Range(CarriedKeywords) :
                  k \in graph.keywords /\ <<n.nid, k>> \in graph.has_keyword
            /\ \A i \in Range(CarriedImages) :
                  /\ ImageKey(i) \in graph.images
                  /\ <<n.nid, ImageKey(i)>> \in graph.has_image

\* The call wrote the Paper node: its stamp is the time of this call.
WrotePaperNode == \E n \in StoredNodes : n.updated_at = clock

\* C3: store_paper returns true exactly when the call wrote the Paper node.
C3_ReturnTellsWrite == IsStore => (last.ret <=> WrotePaperNode)

\* C5: no Paper Store operation lets an exception reach its caller, and it
\* answers its failure value when the driver raised.
C5_ErrorsNeverPropagate ==
    /\ ~last.raised
    /\ (IsStore /\ last.fault # "none") => last.ret = FALSE
    /\ (last.op = "get_paper_by_id" /\ last.fault # "none") => last.ret = None
    /\ (last.op \in {"query_papers", "get_related_papers"} /\ last.fault # "none")
          => last.ret = <<>>

-----------------------------------------------------------------------------
(* Properties of SearchAgent.search_papers (SpecSearch).                   *)

\* Event e1 is logged before event e2.
Before(e1, e2) ==
    \E i, j \in 1..Len(sa.events) :
        i < j /\ sa.events[i] = e1 /\ sa.events[j] = e2

\* C4: every paper search_papers returns has its Paper node in the graph,
\* stored by a transaction that started after its PDF extraction ended.
C4_ReturnedPapersAreStored ==
    sa.pc = "returned" =>
        \A i \in 1..Len(sa.papers) :
            /\ PaperNodes(graph, sa.papers[i].id) # {}
            /\ Before(<<"extracted", sa.papers[i].id>>,
                      <<"store_started", sa.papers[i].id>>)

-----------------------------------------------------------------------------
(* Properties of query_papers (SpecQuery).                                 *)

IsQuery == last.op = "query_papers"

HasTopic(o, topic) == o # None /\ IsSubstring(topic, Val(o))

\* C6: query_papers returns no paper older than the start year and no
\* paper that has the topic neither in its title nor in its summary.
C6_QueryFilters ==
    IsQuery =>
        \A i \in 1..Len(last.ret) :
            /\ last.ret[i].year >= last.args.start_year
            /\ \/ IsSubstring(last.args.topic, last.ret[i].title)
               \/ HasTopic(last.ret[i].summary, last.args.topic)

\* A query answered with a paper while the graph holds, with authors and
\* keywords, a paper that is too old and one that lacks the topic.
C6_Witness ==
    /\ IsQuery
    /\ Len(last.ret) >= 1
    /\ \E n \in graph.papers :
          /\ QueryJoins(graph, n)
          /\ \/ n.year < last.args.start_year
             \/ ~(IsSubstring(last.args.topic, n.title)
                    \/ HasTopic(n.summary, last.args.topic))

\* C7: the list query_papers returns has at most `limit` elements, no id
\* twice, and years that never increase.
C7_QueryLimitDistinctNewestFirst ==
    IsQuery =>
        /\ Len(last.ret) <= last.args.limit
        /\ \A i, j \in 1..Len(last.ret) :
              i < j => /\ last.ret[i].id # last.ret[j].id
                       /\ last.ret[i].year >= last.ret[j].year

\* A query that filled its limit of two with papers of different years.
C7_Witness ==
    /\ IsQuery
    /\ last.args.limit = 2
    /\ Len(last.ret) = 2
    /\ last.ret[1].year > last.ret[2].year

\* The paper matches the search: topic in its title or in its abstract
\* (stored as abstract by Neo4jHandler, as summary by DBAgent), year not
\* below the start year.
Matching(n) ==
    /\ n.year >= last.args.start_year
    /\ \/ IsSubstring(last.args.topic, n.title)
       \/ HasTopic(n.abstract, last.args.topic)
       \/ HasTopic(n.summary, last.args.topic)

\* C8: query_papers returns every stored matching paper that fewer than
\* `limit` matching papers precede.  (Papers of the same year are counted
\* as preceding, which only helps the code.)
C8_QueryFindsEveryMatch ==
    (IsQuery /\ last.fault = "none") =>
        \A n \in graph.papers :
            (/\ Matching(n)
             /\ Cardinality({m \in graph.papers :
                                m.nid # n.nid /\ Matching(m) /\ m.year >= n.year})
                  < last.args.limit)
            => \E i \in 1..Len(last.ret) : last.ret[i].id = n.id

-----------------------------------------------------------------------------
(* Properties of get_related_papers (SpecRelated).                         *)

IsRelated == last.op = "get_related_papers"

\* The Keyword nodes the papers with ids a and b both have.
SharedKeywords(a, b) ==
    UNION {KeywordsOf(graph, n.nid) : n \in PaperNodes(graph, a)}
      \cap UNION {KeywordsOf(graph, n.nid) : n \in PaperNodes(graph, b)}

Shared(id) == Cardinality(SharedKeywords(last.args.paper_id, id))

C10_RelatedRankedByShared ==
    IsRelated =>
        /\ \A i, j \in 1..Len(last.ret) :
              i < j => Shared(last.ret[i].id) >= Shared(last.ret[j].id)
        /\ \A n \in graph.papers :
              (/\ n.id # last.args.paper_id
               /\ \A i \in 1..Len(last.ret) : last.ret[i].id # n.id)
              => \A i \in 1..Len(last.ret) : Shared(n.id) <= Shared(last.ret[i].id)

-----------------------------------------------------------------------------
(* Properties of POST /future_work and POST /improvement_plan              *)
(* (SpecWriting).                                                          *)

IsWriting == api.op \in {"future_work", "improvement_plan"} /\ api.pc = "done"

\* The positions of the requested ids that have a Paper node in the graph.
MatchingIds ==
    {i \in 1..Len(api.paper_ids) : PaperNodes(graph, api.paper_ids[i]) # {}}

\* C11: a request whose non-empty paper_ids match no stored Paper is
\* answered 404; with at least one matching id the Writing Orchestrator is
\* handed one stored Paper record for each matching id and nothing else.
C11_NotFoundOrStoredPapers ==
    IsWriting =>
        /\ (api.paper_ids # <<>> /\ MatchingIds = {}) => api.status = 404
        /\ MatchingIds # {} =>
              /\ Len(api.handed) = Cardinality(MatchingIds)
              /\ \A k \in 1..Len(api.handed) :
                    /\ api.handed[k].kind = "paper"
                    /\ \E i \in MatchingIds :
                          api.handed[k].paper_id = api.paper_ids[i]

-----------------------------------------------------------------------------
(* Properties of QAAgent.answer_question and POST /answer (SpecQA).        *)

IsAnswer == qa.op = "answer_question"

\* The call got past "if not papers or not question".
Validated == IsAnswer /\ qa.papers # <<>> /\ qa.question # <<>>

Returned == IsAnswer /\ qa.status = "returned"

\* C12: a call of answer_question or of POST /answer with no papers or an
\* empty question fails with a validation error, and neither the QA
\* pipeline nor the tokenizer nor the generation engine was called.
C12_ValidationBeforeEngines ==
    /\ (IsAnswer /\ (qa.papers = <<>> \/ qa.question = <<>>)) =>
          qa.status = "raised" /\ qa.error = "validation" /\ qa.engines = <<>>
    /\ (api.op = "answer" /\ (api.paper = <<>> \/ api.question = <<>>)) =>
          api.status = 422 /\ api.engines = <<>> /\ qa.engines = <<>>

\* answer_question was called with papers and an empty question and failed
\* validation.
C12_Witness ==
    /\ IsAnswer
    /\ qa.papers # <<>>
    /\ qa.question = <<>>
    /\ qa.error = "validation"

\* One paper with an abstract and no full text.
AbstractOnly ==
    /\ Validated
    /\ Len(qa.papers) = 1
    /\ qa.papers[1].abstract # <<>>
    /\ qa.papers[1].full_text = None

\* C13: with one paper that has an abstract and no full text the call
\* returns; its only source is that paper and the context it used, and
\* handed to the QA pipeline, is the abstract.
C13_AbstractFallback ==
    AbstractOnly =>
        /\ qa.status = "returned"
        /\ Len(Val(qa.result).sources) = 1
        /\ Val(qa.result).sources[1].paper_id = qa.papers[1].id
        /\ Val(qa.result).sources[1].title = qa.papers[1].title
        /\ Val(qa.result).sources[1].year = qa.papers[1].year
        /\ qa.combined = qa.papers[1].abstract
        /\ Val(qa.result).context_used
              = Take(qa.papers[1].abstract, ContextUsedChars)
        /\ Val(qa.pipeline_in).context
              = Take(qa.papers[1].abstract, ContextChars)

C13_Witness == AbstractOnly /\ qa.status = "returned" /\ qa.fault = "none"

HasFullText(paper) == paper.full_text # None /\ Val(paper.full_text) # <<>>

\* The text of a context is taken from the given content.
DerivedFrom(text, content) == text # <<>> /\ IsSubstring(text, content)

\* C14: every per-paper context comes from the paper's full text when it
\* has one and from its abstract otherwise, and a single paper with full
\* text and an empty abstract is answered.
C14_FullTextBeforeAbstract ==
    Validated =>
        /\ \A i \in 1..Len(qa.contexts) :
              \A k \in 1..Len(qa.papers) :
                  qa.papers[k].id = qa.contexts[i].paper_id =>
                      IF HasFullText(qa.papers[k])
                      THEN DerivedFrom(qa.contexts[i].text,
                                       Val(qa.papers[k].full_text))
                      ELSE DerivedFrom(qa.contexts[i].text,
                                       qa.papers[k].abstract)
        /\ (/\ Len(qa.papers) = 1
            /\ HasFullText(qa.papers[1])
            /\ qa.papers[1].abstract = <<>>) => qa.status = "returned"

\* The score the ranker gave the context of a paper.
ScoreOf(paper_id) ==
    qa.scores[CHOOSE i \in 1..Len(qa.contexts) :
                 qa.contexts[i].paper_id = paper_id]

\* 'From <title> (<year>):'
HeaderOf(source) ==
    <<"F", "r", "o", "m", " ">> \o source.title \o <<" ", "(">>
        \o Str(source.year) \o <<")", ":">>

\* C15: with two or more papers the answer has at most 3 sources, each a
\* different input paper with non-empty text; no context left out is
\* scored above a source and the sources come in descending score; the
\* combined context is, in that order, one block per source made of the
\* header 'From <title> (<year>):' and the source's text.
C15_TopThreeRankedWithHeaders ==
    (Returned /\ Len(qa.papers) >= 2) =>
        LET sources == Val(qa.result).sources
        IN /\ Len(sources) <= TopContexts
           /\ Len(sources) = Len(qa.ranked)
           /\ \A i, j \in 1..Len(sources) :
                 i # j => sources[i].paper_id # sources[j].paper_id
           /\ \A i \in 1..Len(sources) :
                 /\ \E k \in 1..Len(qa.papers) :
                       /\ qa.papers[k].id = sources[i].paper_id
                       /\ qa.papers[k].title = sources[i].title
                       /\ qa.papers[k].year = sources[i].year
                 /\ qa.ranked[i].paper_id = sources[i].paper_id
                 /\ qa.ranked[i].text # <<>>
           /\ \A i, j \in 1..Len(sources) :
                 i < j => ScoreOf(sources[i].paper_id)
                             >= ScoreOf(sources[j].paper_id)
           /\ \A c \in Range(qa.contexts) :
                 (\A i \in 1..Len(sources) : sources[i].paper_id # c.paper_id)
                    => /\ Len(sources) = TopContexts
                       /\ \A i \in 1..Len(sources) :
                             ScoreOf(c.paper_id) <= ScoreOf(sources[i].paper_id)
           /\ qa.combined
                 = Join(<<"\n", "\n">>,
                        [i \in 1..Len(sources) |->
                            HeaderOf(sources[i]) \o <<"\n">> \o qa.ranked[i].text])

\* Four papers gave a context, three became sources, and the ranker
\* scored one of the sources above the context it left out.
C15_Witness ==
    /\ Returned
    /\ Len(qa.contexts) = 4
    /\ Len(Val(qa.result).sources) = 3
    /\ \E c \in Range(qa.contexts) :
          /\ \A i \in 1..3 : Val(qa.result).sources[i].paper_id # c.paper_id
          /\ ScoreOf(c.paper_id) < ScoreOf(Val(qa.result).sources[1].paper_id)

HasImages(paper) == paper.images # None /\ Val(paper.images) # <<>>

\* The label _process_image_question writes for an image: 'Figure <index>'
MentionsImage(text, img) ==
    IsSubstring(<<"F", "i", "g", "u", "r", "e", " ">> \o Str(img.index), text)

\* C16: when the question contains one of the image keywords, the context
\* of every paper that carries images includes the text derived from each
\* of its images; when it contains none, no image is processed.
C16_ImageTextOnImageQuestions ==
    Returned =>
        /\ IsImageQuestion(qa.question) =>
              \A i \in 1..Len(qa.contexts) :
                  \A k \in 1..Len(qa.papers) :
                      (qa.papers[k].id = qa.contexts[i].paper_id
                         /\ HasImages(qa.papers[k])) =>
                          \A n \in 1..Len(Val(qa.papers[k].images)) :
                              MentionsImage(qa.contexts[i].text,
                                            Val(qa.papers[k].images)[n])
        /\ ~IsImageQuestion(qa.question) => qa.images_read = {}

\* The engine named by the fault was called and raised.
EngineFailed ==
    /\ Validated
    /\ qa.fault \in EngineFaults
    /\ qa.engines # <<>>
    /\ qa.engines[Len(qa.engines)] = qa.fault

\* C17: when the QA pipeline, the tokenizer or the generation engine
\* raises, answer_question returns 'Failed to generate answer' with
\* confidence 0 and the sources, and POST /answer answers 200 with it.
C17_EngineFailureDegrades ==
    EngineFailed =>
        /\ qa.status = "returned"
        /\ Val(qa.result).text = FailedToGenerate
        /\ Val(qa.result).confidence = 0
        /\ Len(Val(qa.result).sources) = Len(qa.ranked)
        /\ \A i \in 1..Len(qa.ranked) :
              Val(qa.result).sources[i].paper_id = qa.ranked[i].paper_id
        /\ api.op = "answer" => api.status = 200 /\ api.body = qa.result

\* The generation engine raised in a call that had two sources.
C17_Witness ==
    /\ EngineFailed
    /\ qa.fault = "llm"
    /\ qa.status = "returned"
    /\ Len(Val(qa.result).sources) = 2

\* C18: the prompt given to the tokenizer and the generation engine holds
\* the question and the combined context of the call.
C18_EngineInputHoldsContext ==
    (Validated /\ qa.prompt # None) =>
        /\ IsSubstring(qa.question, Val(qa.prompt))
        /\ IsSubstring(qa.combined, Val(qa.prompt))

-----------------------------------------------------------------------------
(* Properties of POST /search (SpecApiSearch).                             *)

\* The handler answered a search that found papers.
SearchDone == api.op = "search" /\ api.pc = "done" /\ api.work # <<>>

\* The log records of the entries reported for the paper at position i.
ReportsOf(i) == {l \in Range(api.log) : l.i = i /\ l.entry > 0}

\* Every extraction made for the paper at position i before its entry was
\* built gave nothing: the one of SearchAgent, which left the paper without
\* full text, and the one of the handler.
ExtractionFailed(i) ==
    /\ api.work[i].full_text = None
    /\ \A l \in Range(api.log) : (l.site = "handler" /\ l.i = i) => ~l.ok

C20_SuccessCarriesCount ==
    (api.op = "search" /\ api.pc = "done" /\ api.status = 200) =>
        /\ {"status", "papers", "count"} \subseteq api.fields
        /\ api.count = Some(Len(api.papers))

-----------------------------------------------------------------------------
(* Properties of POST /review and FutureWorksAgent (SpecReview).           *)

IsReview == api.op = "review" /\ api.pc = "done" /\ api.paper # <<>>

\* C21: when the generation engine throws while a review is produced, the
\* response is a 5xx error with a detail message, never a 2xx response
\* carrying a review.
C21_EngineFailureIs5xx ==
    (IsReview /\ api.fault = "generate") =>
        /\ api.status >= 500
        /\ "detail" \in api.fields
        /\ "review" \notin api.fields

\* The lines the prompt writes for a paper.
PromptLines(p) ==
    {<<"T", "i", "t", "l", "e", ":", " ">> \o p.title,
     <<"Y", "e", "a", "r", ":", " ">> \o Str(p.year),
     <<"A", "b", "s", "t", "r", "a", "c", "t", ":", " ">> \o p.abstract}

\* The places of the marker in the text the engine produced.
MarkerAt ==
    {i \in 1..Len(api.raw) : /\ i + Len(SummaryMarker) - 1 <= Len(api.raw)
                             /\ SubSeq(api.raw, i, i + Len(SummaryMarker) - 1)
                                   = SummaryMarker}

\* C23: the plan is the engine's text unchanged when the text has no
\* marker, otherwise it is what follows an occurrence of the marker,
\* stripped; and it holds no title, year or abstract line of the prompt.
C23_PlanDropsPrompt ==
    (IsReview /\ api.fault = "none") =>
        LET plan == Val(api.body).review
        IN /\ MarkerAt = {} => plan = api.raw
           /\ MarkerAt # {} =>
                 \E i \in MarkerAt :
                     plan = Strip(Drop(api.raw, i + Len(SummaryMarker) - 1))
           /\ \A k \in 1..Len(api.paper) :
                 \A line \in PromptLines(api.paper[k]) :
                     ~IsSubstring(line, plan)

-----------------------------------------------------------------------------
(* Properties of the Image nodes (SpecImages).                             *)

\* The Paper nodes linked to an Image node by HAS_IMAGE.
PapersOfImage(image) == {r[1] : r \in {h \in graph.has_image : h[2] = image}}

-----------------------------------------------------------------------------
(* Further properties of POST /search (SpecApiSearch).                     *)

\* C24: in every success response of POST /search each paper the
\* SearchAgent returned appears exactly once in papers, whichever step
\* fails or raises for it.
C24_EachPaperReportedOnce ==
    SearchDone =>
        /\ Len(api.papers) = Len(api.work)
        /\ \A i \in 1..Len(api.work) : Cardinality(ReportsOf(i)) = 1

\* The calls of process_pdf_url made for the paper at position i: the one
\* of SearchAgent._store_paper_safe while the batch was built, the one of
\* the handler and the one of the handler's call of _store_paper_safe.
ExtractionsOf(i) ==
    (IF i <= Cardinality({k \in 1..Len(sa.events) :
                             sa.events[k][1] = "extracted"})
     THEN 1 ELSE 0)
    + Cardinality({k \in 1..Len(api.log) : api.log[k].i = i})

\* The calls of asyncio.to_thread(store_paper, paper) made for the paper
\* at position i: by SearchAgent.search_papers, then by the handler.
StoreAttemptsOf(i) ==
    (IF i <= Len(sa.papers) THEN 1 ELSE 0)
    + Cardinality({k \in 1..Len(api.log) :
                      api.log[k].i = i /\ api.log[k].site = "store"})

\* C25: within one POST /search request the PDF extractor is invoked
\* exactly once and the store is attempted exactly once for each paper of
\* the response, and has_full_text reports what that extraction gave.
C25_OneExtractionOneStore ==
    SearchDone =>
        \A i \in 1..Len(api.work) :
            /\ ExtractionsOf(i) = 1
            /\ StoreAttemptsOf(i) = 1
            /\ \A l \in ReportsOf(i) :
                  l.site = "handler" =>
                      api.papers[l.entry].has_full_text = l.ok

-----------------------------------------------------------------------------
(* Property of the size of a search response (SpecSearchLimit).            *)

\* C26: a success response of POST /search holds at most max_results
\* papers, max_results being the value of the request body (10 when the
\* body omits it).
C26_AtMostMaxResults ==
    (api.op = "search" /\ api.pc = "done" /\ api.status = 200
                       /\ api.request # None) =>
        Len(api.papers) <= Val(api.request).max_results

-----------------------------------------------------------------------------
(* Property of what a response of answer_question echoes (SpecQAFormat).   *)

\* s is the first characters of t.
IsPrefix(s, t) == Len(s) <= Len(t) /\ s = SubSeq(t, 1, Len(s))

\* C27: in the response of answer_question context_used has at most 1000
\* characters and is a prefix of the combined context, cut only when the
\* context is longer; every source excerpt is the first 200 characters of
\* the text of its source followed by "...".  This holds on the
\* single-paper path and on the multi-paper path.
C27_ResponseBoundsEcho ==
    (qa.op = "answer_question" /\ qa.status = "returned") =>
        LET response == Val(qa.result)
        IN /\ Len(response.context_used) <= ContextUsedChars
           /\ IsPrefix(response.context_used, qa.combined)
           /\ Len(qa.combined) <= ContextUsedChars
                 => response.context_used = qa.combined
           /\ Len(response.sources) = Len(qa.ranked)
           /\ \A i \in 1..Len(qa.ranked) :
                 LET excerpt == response.sources[i].excerpt
                     text == qa.ranked[i].text
                     kept == Len(excerpt) - 3
                 IN /\ kept = Min(Len(text), ExcerptChars)
                    /\ IsPrefix(SubSeq(excerpt, 1, kept), text)
                    /\ SubSeq(excerpt, kept + 1, kept + 3) = <<".", ".", ".">>

\* A question on several papers was answered: the combined context was
\* longer than 1000 characters and was cut, and the text of a source was
\* longer than 200 characters and was cut.
C27_Witness ==
    /\ qa.op = "answer_question"
    /\ qa.status = "returned"
    /\ Len(qa.papers) > 1
    /\ Len(qa.combined) > ContextUsedChars
    /\ Len(Val(qa.result).context_used) = ContextUsedChars
    /\ \E i \in 1..Len(qa.ranked) :
          /\ Len(qa.ranked[i].text) > ExcerptChars
          /\ Len(Val(qa.result).sources[i].excerpt) = ExcerptChars + 3

-----------------------------------------------------------------------------
(* Properties of the chat front-end (SpecUi, SpecIntent).                  *)

\* C28: after every script run selected_papers is a subset of the papers
\* list; a search the backend answers with success replaces papers and
\* empties selected_papers; a QA, review or future-work message sent while
\* selected_papers is empty sends no HTTP request.
C28_SelectionWithinPapers ==
    /\ Range(ui.selected_papers) \subseteq Range(ui.papers)
    /\ (ui.run = "chat" /\ ui.intent = "search" /\ ui.response # None) =>
          (Val(ui.response).status = 200 =>
              /\ ui.papers = Val(ui.response).papers
              /\ ui.returned = Some(<<>>))
    /\ (ui.run = "chat" /\ ui.intent # "search" /\ ui.before = <<>>) =>
          ui.http = <<>>

\* The groups of keywords in their order.
IntentGroups ==
    <<[intent |-> "search",
       keywords |->
          {<<"s", "e", "a", "r", "c", "h">>,
           <<"s", "h", "o", "w">>,
           <<"p", "a", "p", "e", "r", "s">>}],
      [intent |-> "qa",
       keywords |->
          {<<"e", "x", "p", "l", "a", "i", "n">>,
           <<"w", "h", "a", "t">>,
           <<"h", "o", "w">>,
           <<"w", "h", "y">>,
           <<"d", "e", "s", "c", "r", "i", "b", "e">>}],
      [intent |-> "review",
       keywords |->
          {<<"r", "e", "v", "i", "e", "w">>,
           <<"s", "u", "m", "m", "a", "r", "i", "z", "e">>,
           <<"s", "u", "m", "m", "a", "r", "y">>}],
      [intent |-> "future_works",
       keywords |->
          {<<"f", "u", "t", "u", "r", "e">>,
           <<"i", "m", "p", "r", "o", "v", "e", "m", "e", "n", "t", "s">>,
           <<"s", "u", "g", "g", "e", "s", "t", "i", "o", "n", "s">>}]>>

\* keyword occurs in message, whatever the case of the letters typed.
OccursIgnoringCase(keyword, message) ==
    \E i \in 1..Len(message) :
        /\ i + Len(keyword) - 1 <= Len(message)
        /\ \A j \in 1..Len(keyword) : LowerChar(message[i + j - 1]) = keyword[j]

GroupsHit(message) ==
    {g \in 1..Len(IntentGroups) :
        \E keyword \in IntentGroups[g].keywords :
            OccursIgnoringCase(keyword, message)}

\* C29: detect_intent answers the intent of the first group, in the order
\* search, qa, review, future_works, of which the message holds a keyword
\* as a substring whatever the case, and qa when it holds none; a message
\* holding a keyword of a group is never given the intent of a later group.
C29_FirstMatchingGroup ==
    ui.run = "chat" =>
        LET hit == GroupsHit(ui.message)
        IN /\ hit # {} =>
                 \E g \in hit : /\ \A h \in hit : g <= h
                                /\ ui.intent = IntentGroups[g].intent
           /\ hit = {} => ui.intent = "qa"
           /\ \A g \in hit : \A h \in 1..Len(IntentGroups) :
                 g < h => ui.intent # IntentGroups[h].intent

\* A message that holds a keyword of the review group and, after it and in
\* capitals, a keyword of the search group was classified as a search.
C29_Witness ==
    /\ ui.run = "chat"
    /\ {1, 3} \subseteq GroupsHit(ui.message)
    /\ ~IsSubstring(<<"p", "a", "p", "e", "r", "s">>, ui.message)
    /\ IsSubstring(<<"P", "A", "P", "E", "R", "S">>, ui.message)
    /\ ui.intent = "search"
====
